---- MODULE Spec2Model ----
(***************************************************************************)
(* DaySync server: the AI conversation loop of app/routers/ai_chat.py      *)
(* (chat_with_ai), its function dispatcher (execute_function_call), the    *)
(* retention helpers (cleanup_old_sessions, cleanup_old_messages) and the  *)
(* session management endpoints, over the tables of app/models.py.         *)
(*                                                                         *)
(* Time is counted in seconds, the resolution of the DATETIME columns.     *)
(* A text is a tuple of characters.  A function-call argument is a record  *)
(* [s, iso]: the characters of the string and what datetime.fromisoformat  *)
(* makes of it (-1: it raises ValueError).                                 *)
(***************************************************************************)
EXTENDS Integers, Sequences, FiniteSets, TLC

VARIABLES
    now,        \* the wall clock, datetime.now() / func.now()
    users,      \* table users: uuid -> is_deleted
    sessions,   \* table sessions: set of rows
    messages,   \* table messages: set of rows
    calendars,  \* table calendars: set of rows
    alarms,     \* table alarms: set of rows
    nextId,     \* the AUTO_INCREMENT counters of the four tables
    turn        \* per worker, the request of chat_with_ai it handles

vars == <<now, users, sessions, messages, calendars, alarms, nextId, turn>>

-----------------------------------------------------------------------------
(* Bounds of the model *)

MaxClockSteps == 1     \* seconds that pass in a behaviour

-----------------------------------------------------------------------------
(* Program constants *)

MAX_SESSIONS_PER_USER == 15
MAX_MESSAGES_PER_SESSION == 50
MESSAGE_HISTORY_LIMIT == 10
Horizon == 30 * 86400          \* timedelta(days=30), in seconds

-----------------------------------------------------------------------------
(* Texts.  A Hangul syllable is one character, written here by its
   romanisation ("k_hal"); "j_" marks a compatibility jamo and "c_" a
   conjoining jamo, which are different characters. *)

NULLSTR == <<"NULL">>          \* a NULL text column / Python None
NULLTIME == -1                 \* a NULL DATETIME column

IsSubstring(p, s) ==
    \E i \in 0..(Len(s) - Len(p)) : SubSeq(s, i + 1, i + Len(p)) = p

RECURSIVE LStrip(_)
LStrip(s) == IF s # <<>> /\ Head(s) = " " THEN LStrip(Tail(s)) ELSE s

RECURSIVE RStrip(_)
RStrip(s) ==
    IF s # <<>> /\ s[Len(s)] = " " THEN RStrip(SubSeq(s, 1, Len(s) - 1)) ELSE s

Strip(s) == RStrip(LStrip(s))

LowerChar(c) ==
    CASE c = "Y" -> "y" [] c = "E" -> "e" [] c = "S" -> "s"
      [] c = "N" -> "n" [] c = "O" -> "o" [] c = "K" -> "k"
      [] OTHER -> c

Lower(s) == [i \in 1..Len(s) |-> LowerChar(s[i])]

question_patterns ==
    { <<"?">>, <<"k_hal", "k_kka", "k_yo">>, <<"k_ha", "k_si", "k_gess", "k_eo", "k_yo">>,
      <<"k_ha", "k_sil", "k_rae", "k_yo">>, <<"k_gwaen", "k_chanh", "k_eu", "k_se", "k_yo">>,
      <<"k_joh", "k_eu", "k_se", "k_yo">>, <<"k_eo", "k_ttae", "k_yo">>, <<"k_eo", "k_tteo", "k_se", "k_yo">> }

is_question_message(message) ==
    \E pattern \in question_patterns : IsSubstring(pattern, message)

positive_patterns ==
    { <<"k_eung">>, <<"k_eo">>, <<"j_ieung">>, <<"j_ieung", "j_ieung">>, <<"c_ieung">>, <<"c_ieung", "c_ieung">>,
      <<"k_ne">>, <<"k_nep">>, <<"j_nieun", "j_ieung">>, <<"y", "e", "s">>, <<"o", "k">>,
      <<"k_o", "k_ki">>, <<"k_o", "k_ke", "k_i">>, <<"k_joh", "k_a">>, <<"j_ieung", "j_kieuk">> }

negative_patterns ==
    { <<"k_no">>, <<"j_nieun">>, <<"j_nieun", "j_nieun">>, <<"c_nieun">>, <<"c_nieun", "c_nieun">>,
      <<"k_si", "k_reum">>, <<"k_a", "k_ni">>, <<"k_a", "k_nyo">>, <<"k_silh", "k_eo">>,
      <<"n", "o">>, <<"j_nieun", "j_nieun", "j_nieun">>, <<"k_no", "k_no">> }

\* A canonical affirmative sentence that is itself a token
AffirmativeToken == <<"k_ne">>

AffirmativeSentence ==
    <<"k_ne", ",", " ", "k_geu", "k_reoh", "k_ge", " ", "k_hae", "k_ju", "k_se", "k_yo">>
NegativeSentence ==
    <<"k_a", "k_ni", "k_yo", ",", " ", "k_pil", "k_yo", " ", "k_eops", "k_seup", "k_ni", "k_da">>

\* normalize_short_response that compares the message as it was typed
normalize_short_response_as_typed(message, last_ai_message) ==
    IF last_ai_message = NULLSTR \/ last_ai_message = <<>>
         \/ ~is_question_message(last_ai_message)
    THEN [text |-> message, was_normalized |-> FALSE]
    ELSE IF message \in positive_patterns
         THEN [text |-> AffirmativeSentence, was_normalized |-> TRUE]
         ELSE IF message \in negative_patterns
         THEN [text |-> NegativeSentence, was_normalized |-> TRUE]
         ELSE [text |-> message, was_normalized |-> FALSE]

\* normalize_short_response: [text, was_normalized]; last_ai_message may be NULLSTR
normalize_short_response(message, last_ai_message) ==
    IF last_ai_message = NULLSTR \/ last_ai_message = <<>>
         \/ ~is_question_message(last_ai_message)
    THEN [text |-> message, was_normalized |-> FALSE]
    ELSE LET normalized_msg == Lower(Strip(message)) IN
         IF normalized_msg \in positive_patterns
         THEN [text |-> AffirmativeSentence, was_normalized |-> TRUE]
         ELSE IF normalized_msg \in negative_patterns
         THEN [text |-> NegativeSentence, was_normalized |-> TRUE]
         ELSE [text |-> message, was_normalized |-> FALSE]

-----------------------------------------------------------------------------
(* Function-call arguments: args is a function from the keys present to
   values [s, iso] *)

Val(s, iso) == [s |-> s, iso |-> iso]

\* bool(args.get(k)): the key is present and its string is not empty
Truthy(args, k) == k \in DOMAIN args /\ args[k].s # <<>>

\* args.get(k) as stored in a text column (None when the key is absent)
Get(args, k) == IF k \in DOMAIN args THEN args[k].s ELSE NULLSTR

\* datetime.fromisoformat(args.get(k)) raises ValueError
BadIso(args, k) == args[k].iso = NULLTIME

Result(status) ==
    [status |-> status, action |-> "none", start_location |-> NULLSTR,
     destination |-> NULLSTR, target_date |-> NULLSTR,
     require_location_confirmation |-> FALSE, events |-> {}]

\* What a call of execute_function_call leaves behind: the dict it returns
\* (status "raised": it raised instead), the two domain tables and their
\* counters as committed, and the rows changed in the ORM session but not
\* flushed (dirty), which the next db.commit() of the request writes.
Outcome(result, cal, alm, ids, dirty) ==
    [result |-> result, cal |-> cal, alm |-> alm, ids |-> ids, dirty |-> dirty]

Unchanged(result, db) == Outcome(result, db.cal, db.alm, db.ids, {})

create_schedule(args, user_uuid, db) ==
    IF ~Truthy(args, "title") \/ ~Truthy(args, "start_time")
    THEN {Unchanged(Result("error"), db)}
    ELSE IF BadIso(args, "start_time")
            \/ (Truthy(args, "end_time") /\ BadIso(args, "end_time"))
    THEN {Unchanged(Result("raised"), db)}
    ELSE LET new_event ==
                 [id |-> db.ids.calendar, user_uuid |-> user_uuid,
                  event_title |-> Get(args, "title"),
                  event_start_time |-> args["start_time"].iso,
                  event_end_time |-> IF Truthy(args, "end_time")
                                     THEN args["end_time"].iso ELSE NULLTIME,
                  description |-> Get(args, "description"),
                  location_alias |-> Get(args, "location")]
         IN {Outcome(Result("success"), db.cal \cup {new_event}, db.alm,
                     [db.ids EXCEPT !.calendar = @ + 1], {})}

\* create_alarm that validates the time only
create_alarm_time_only(args, user_uuid, db) ==
    IF ~Truthy(args, "time")
    THEN {Unchanged(Result("error"), db)}
    ELSE IF BadIso(args, "time")
    THEN {Unchanged(Result("raised"), db)}
    ELSE LET new_alarm ==
                 [id |-> db.ids.alarm, user_uuid |-> user_uuid,
                  alarm_time |-> args["time"].iso,
                  label |-> Get(args, "label"),
                  is_enabled |-> TRUE,
                  repeat_days |-> Get(args, "repeat_days")]
         IN {Outcome(Result("success"), db.cal, db.alm \cup {new_alarm},
                     [db.ids EXCEPT !.alarm = @ + 1], {})}

create_alarm(args, user_uuid, db) ==
    IF ~Truthy(args, "time") \/ ~Truthy(args, "label")
    THEN {Unchanged(Result("error"), db)}
    ELSE IF BadIso(args, "time")
    THEN {Unchanged(Result("raised"), db)}
    ELSE LET new_alarm ==
                 [id |-> db.ids.alarm, user_uuid |-> user_uuid,
                  alarm_time |-> args["time"].iso,
                  label |-> Get(args, "label"),
                  is_enabled |-> TRUE,
                  repeat_days |-> Get(args, "repeat_days")]
         IN {Outcome(Result("success"), db.cal, db.alm \cup {new_alarm},
                     [db.ids EXCEPT !.alarm = @ + 1], {})}

get_schedule_info(args, user_uuid, db) ==
    IF Truthy(args, "search_date") /\ BadIso(args, "search_date")
    THEN {Unchanged(Result("raised"), db)}
    ELSE LET events ==
                 {e \in db.cal :
                    /\ e.user_uuid = user_uuid
                    /\ Truthy(args, "title") =>
                           IsSubstring(args["title"].s, e.event_title)
                    /\ Truthy(args, "search_date") =>
                           /\ e.event_start_time >= args["search_date"].iso
                           /\ e.event_start_time
                                  < args["search_date"].iso + 86400}
         IN {Unchanged([Result("success") EXCEPT
                            !.events = {e.id : e \in events}], db)}

\* The rows replaced by row r (same primary key)
Replace(table, r) == {x \in table : x.id # r.id} \cup {r}

\* The attributes update_schedule assigns, in its order; it stops at the
\* first datetime.fromisoformat that raises.  [row, raised]
UpdateScheduleFields(event, args) ==
    LET e1 == IF Truthy(args, "new_title")
              THEN [event EXCEPT !.event_title = args["new_title"].s]
              ELSE event
        bad2 == Truthy(args, "new_start_time") /\ BadIso(args, "new_start_time")
        e2 == IF Truthy(args, "new_start_time") /\ ~bad2
              THEN [e1 EXCEPT !.event_start_time = args["new_start_time"].iso]
              ELSE e1
        bad3 == Truthy(args, "new_end_time") /\ BadIso(args, "new_end_time")
        e3 == IF Truthy(args, "new_end_time") /\ ~bad3
              THEN [e2 EXCEPT !.event_end_time = args["new_end_time"].iso]
              ELSE e2
        e4 == IF Truthy(args, "new_description")
              THEN [e3 EXCEPT !.description = args["new_description"].s]
              ELSE e3
        e5 == IF Truthy(args, "new_location")
              THEN [e4 EXCEPT !.location_alias = args["new_location"].s]
              ELSE e4
    IN IF bad2 THEN [row |-> e1, raised |-> TRUE]
       ELSE IF bad3 THEN [row |-> e2, raised |-> TRUE]
       ELSE [row |-> e5, raised |-> FALSE]

\* The rows the filter of update_schedule / delete_schedule selects;
\* .first() takes any one of them
\* The schedules of that title, whoever owns them
ScheduleMatchesAnyUser(args, user_uuid, db) ==
    {e \in db.cal : e.event_title = args["title"].s}

ScheduleMatches(args, user_uuid, db) ==
    {e \in db.cal : e.user_uuid = user_uuid /\ e.event_title = args["title"].s}

update_schedule(args, user_uuid, db) ==
    IF ~Truthy(args, "title")
    THEN {Unchanged(Result("error"), db)}
    ELSE IF ScheduleMatches(args, user_uuid, db) = {}
    THEN {Unchanged(Result("error"), db)}
    ELSE { LET u == UpdateScheduleFields(event, args) IN
           IF u.raised
           THEN Outcome(Result("raised"), db.cal, db.alm, db.ids,
                        IF u.row = event THEN {}
                        ELSE {[table |-> "calendars", row |-> u.row]})
           ELSE Outcome(Result("success"), Replace(db.cal, u.row), db.alm,
                        db.ids, {})
           : event \in ScheduleMatches(args, user_uuid, db) }

delete_schedule(args, user_uuid, db) ==
    IF ~Truthy(args, "title")
    THEN {Unchanged(Result("error"), db)}
    ELSE IF ScheduleMatches(args, user_uuid, db) = {}
    THEN {Unchanged(Result("error"), db)}
    ELSE { Outcome(Result("success"), db.cal \ {event}, db.alm, db.ids, {})
           : event \in ScheduleMatches(args, user_uuid, db) }

UpdateAlarmFields(alarm, args) ==
    LET bad1 == Truthy(args, "new_time") /\ BadIso(args, "new_time")
        a1 == IF Truthy(args, "new_time") /\ ~bad1
              THEN [alarm EXCEPT !.alarm_time = args["new_time"].iso]
              ELSE alarm
        a2 == IF Truthy(args, "new_label")
              THEN [a1 EXCEPT !.label = args["new_label"].s]
              ELSE a1
    IN IF bad1 THEN [row |-> alarm, raised |-> TRUE]
       ELSE [row |-> a2, raised |-> FALSE]

AlarmMatches(args, user_uuid, db) ==
    {a \in db.alm : a.user_uuid = user_uuid /\ a.label = args["label"].s}

update_alarm(args, user_uuid, db) ==
    IF ~Truthy(args, "label")
    THEN {Unchanged(Result("error"), db)}
    ELSE IF AlarmMatches(args, user_uuid, db) = {}
    THEN {Unchanged(Result("error"), db)}
    ELSE { LET u == UpdateAlarmFields(alarm, args) IN
           IF u.raised
           THEN Unchanged(Result("raised"), db)
           ELSE Outcome(Result("success"), db.cal, Replace(db.alm, u.row),
                        db.ids, {})
           : alarm \in AlarmMatches(args, user_uuid, db) }

delete_alarm(args, user_uuid, db) ==
    IF ~Truthy(args, "label")
    THEN {Unchanged(Result("error"), db)}
    ELSE IF AlarmMatches(args, user_uuid, db) = {}
    THEN {Unchanged(Result("error"), db)}
    ELSE { Outcome(Result("success"), db.cal, db.alm \ {alarm}, db.ids, {})
           : alarm \in AlarmMatches(args, user_uuid, db) }

CURRENT_LOCATION == <<"CURRENT_LOCATION">>

here_keywords ==
    { <<"k_hyeon", "k_jae">>, <<"k_ji", "k_geum">>, <<"k_yeo", "k_gi">> }

\* search_route that takes a missing start location for a missing argument
search_route_start_required(args, user_uuid, db) ==
    IF ~Truthy(args, "destination") \/ ~Truthy(args, "start_location")
    THEN {Unchanged(Result("error"), db)}
    ELSE LET start_location ==
                 IF \E keyword \in here_keywords :
                        IsSubstring(keyword, args["start_location"].s)
                 THEN CURRENT_LOCATION
                 ELSE args["start_location"].s
         IN {Unchanged([Result("success") EXCEPT
                           !.start_location = start_location,
                           !.destination = args["destination"].s,
                           !.action = "search_route"], db)}

\* search_route that hands the start location on as it was given
search_route_start_as_given(args, user_uuid, db) ==
    IF ~Truthy(args, "destination")
    THEN {Unchanged(Result("error"), db)}
    ELSE IF ~Truthy(args, "start_location")
    THEN {Unchanged([Result("pending") EXCEPT
                        !.require_location_confirmation = TRUE,
                        !.destination = args["destination"].s], db)}
    ELSE {Unchanged([Result("success") EXCEPT
                        !.start_location = args["start_location"].s,
                        !.destination = args["destination"].s,
                        !.action = "search_route"], db)}

search_route(args, user_uuid, db) ==
    IF ~Truthy(args, "destination")
    THEN {Unchanged(Result("error"), db)}
    ELSE IF ~Truthy(args, "start_location")
    THEN {Unchanged([Result("pending") EXCEPT
                        !.require_location_confirmation = TRUE,
                        !.destination = args["destination"].s], db)}
    ELSE LET start_location ==
                 IF \E keyword \in here_keywords :
                        IsSubstring(keyword, args["start_location"].s)
                 THEN CURRENT_LOCATION
                 ELSE args["start_location"].s
         IN {Unchanged([Result("success") EXCEPT
                           !.start_location = start_location,
                           !.destination = args["destination"].s,
                           !.action = "search_route"], db)}

valid_dates == { <<"today">>, <<"tomorrow">>, <<"day_after_tomorrow">> }

\* get_weather_info without the check of the target date
get_weather_info_any_date(args, user_uuid, db) ==
    IF ~Truthy(args, "target_date")
    THEN {Unchanged(Result("error"), db)}
    ELSE {Unchanged([Result("success") EXCEPT
                        !.action = "get_weather",
                        !.target_date = args["target_date"].s], db)}

\* get_weather_info whose error for a day out of range names the action
get_weather_info_error_action(args, user_uuid, db) ==
    IF ~Truthy(args, "target_date")
    THEN {Unchanged(Result("error"), db)}
    ELSE IF args["target_date"].s \notin valid_dates
    THEN {Unchanged([Result("error") EXCEPT
                        !.action = "get_weather",
                        !.target_date = args["target_date"].s], db)}
    ELSE {Unchanged([Result("success") EXCEPT
                        !.action = "get_weather",
                        !.target_date = args["target_date"].s], db)}

get_weather_info(args, user_uuid, db) ==
    IF ~Truthy(args, "target_date")
    THEN {Unchanged(Result("error"), db)}
    ELSE IF args["target_date"].s \notin valid_dates
    THEN {Unchanged(Result("error"), db)}
    ELSE {Unchanged([Result("success") EXCEPT
                        !.action = "get_weather",
                        !.target_date = args["target_date"].s], db)}

\* execute_function_call: the set of outcomes the call can have
execute_function_call(function_name, args, user_uuid, db) ==
    CASE function_name = "create_schedule" -> create_schedule(args, user_uuid, db)
      [] function_name = "create_alarm" -> create_alarm(args, user_uuid, db)
      [] function_name = "get_schedule_info" -> get_schedule_info(args, user_uuid, db)
      [] function_name = "update_schedule" -> update_schedule(args, user_uuid, db)
      [] function_name = "delete_schedule" -> delete_schedule(args, user_uuid, db)
      [] function_name = "update_alarm" -> update_alarm(args, user_uuid, db)
      [] function_name = "delete_alarm" -> delete_alarm(args, user_uuid, db)
      [] function_name = "search_route" -> search_route(args, user_uuid, db)
      [] function_name = "get_weather_info" -> get_weather_info(args, user_uuid, db)
      [] OTHER -> {Unchanged(Result("error"), db)}

\* The functions of the tool catalogue
RegisteredFunctions ==
    {"create_schedule", "create_alarm", "get_schedule_info", "update_schedule",
     "delete_schedule", "update_alarm", "delete_alarm", "search_route",
     "get_weather_info"}

\* required=[...] of each FunctionDeclaration
Required(function_name) ==
    CASE function_name = "create_schedule" -> {"title", "start_time"}
      [] function_name = "create_alarm" -> {"time", "label"}
      [] function_name \in {"update_schedule", "delete_schedule"} -> {"title"}
      [] function_name \in {"update_alarm", "delete_alarm"} -> {"label"}
      [] function_name = "search_route" -> {"destination"}
      [] function_name = "get_weather_info" -> {"target_date"}
      [] OTHER -> {}

\* The functions whose success path calls db.commit()
CommittingFunctions ==
    {"create_schedule", "create_alarm", "update_schedule", "delete_schedule",
     "update_alarm", "delete_alarm"}

-----------------------------------------------------------------------------
(* Queries *)

\* ORDER BY key DESC ... LIMIT k / rows[:k]: the sets of rows that can come
\* first; rows with equal keys come in any order.  key maps each row of S
\* to its value of the ordering column
TopK(S, k, key) ==
    IF Cardinality(S) <= k THEN {S}
    ELSE LET cut == CHOOSE v \in {key[x] : x \in S} :
                        /\ Cardinality({x \in S : key[x] > v}) < k
                        /\ Cardinality({x \in S : key[x] >= v}) >= k
             above == {x \in S : key[x] > cut}
             tied == {x \in S : key[x] = cut}
         IN {above \cup T : T \in {U \in SUBSET tied :
                                     Cardinality(U) = k - Cardinality(above)}}

SessionsOf(user_uuid) == {x \in sessions : x.user_uuid = user_uuid}
MessagesOf(session_id) == {m \in messages : m.session_id = session_id}

\* The contents that can be last_ai_message: the first assistant message of
\* the history query (newest first, at most MESSAGE_HISTORY_LIMIT rows);
\* NULLSTR when the rows hold none
LastAiMessages(session_id) ==
    UNION { LET ai == {m \in recent : ~m.is_user}
                first == {m \in ai : \A b \in ai : b.created_at <= m.created_at}
            IN IF ai = {} THEN {NULLSTR} ELSE {m.content : m \in first}
            : recent \in TopK(MessagesOf(session_id), MESSAGE_HISTORY_LIMIT,
                              [m \in MessagesOf(session_id) |-> m.created_at]) }

\* ORDER BY created_at DESC LIMIT k as lists: the lists of rows the query
\* can return; rows created within the same second come in any order
RECURSIVE NewestFirst(_, _)
NewestFirst(S, k) ==
    IF k = 0 \/ S = {} THEN {<<>>}
    ELSE UNION { {<<m>> \o rest : rest \in NewestFirst(S \ {m}, k - 1)}
                 : m \in {x \in S : \A y \in S : y.created_at <= x.created_at} }

Reverse(s) == [i \in 1..Len(s) |-> s[Len(s) + 1 - i]]

\* The lists that can be conversation_history, which chat_with_ai hands to
\* the oracle (model.start_chat) and uses for nothing else
conversation_history(session_id) ==
    { Reverse(recent_messages)
      : recent_messages \in NewestFirst(MessagesOf(session_id),
                                        MESSAGE_HISTORY_LIMIT) }

-----------------------------------------------------------------------------
(* Retention *)

\* cleanup_old_messages that deletes the oldest message of every session
\* that holds more than one
cleanup_old_messages_last(msgs, session_id) ==
    LET mine == {m \in msgs : m.session_id = session_id}
    IN { (msgs \ mine) \cup keep
         : keep \in TopK(mine, IF Cardinality(mine) > 1
                               THEN Cardinality(mine) - 1 ELSE 1,
                         [m \in mine |-> m.created_at]) }

\* cleanup_old_messages that keeps the messages created first
cleanup_old_messages_oldest(msgs, session_id) ==
    LET mine == {m \in msgs : m.session_id = session_id}
    IN { (msgs \ mine) \cup keep
         : keep \in TopK(mine, MAX_MESSAGES_PER_SESSION,
                         [m \in mine |-> 0 - m.created_at]) }

\* cleanup_old_messages: the sets of messages the table can hold afterwards
cleanup_old_messages(msgs, session_id) ==
    LET mine == {m \in msgs : m.session_id = session_id}
    IN { (msgs \ mine) \cup keep
         : keep \in TopK(mine, MAX_MESSAGES_PER_SESSION,
                         [m \in mine |-> m.created_at]) }

\* cleanup_old_sessions that keeps the sessions updated least recently
cleanup_old_sessions_oldest(sess, user_uuid, clock) ==
    LET mine == {x \in sess : x.user_uuid = user_uuid}
        inactive_sessions == {x \in mine : x.updated_at < clock - Horizon}
    IN { (sess \ mine) \cup (keep \ inactive_sessions)
         : keep \in TopK(mine, MAX_SESSIONS_PER_USER,
                         [x \in mine |-> 0 - x.updated_at]) }

\* cleanup_old_sessions without the deletion of the inactive sessions
cleanup_old_sessions_no_age(sess, user_uuid, clock) ==
    LET mine == {x \in sess : x.user_uuid = user_uuid}
    IN { (sess \ mine) \cup keep
         : keep \in TopK(mine, MAX_SESSIONS_PER_USER,
                         [x \in mine |-> x.updated_at]) }

\* cleanup_old_sessions: the sets of sessions the table can hold afterwards.
\* The second query runs before the deletions of the first are flushed
\* (autoflush=False), so it still counts the inactive sessions.
cleanup_old_sessions(sess, user_uuid, clock) ==
    LET mine == {x \in sess : x.user_uuid = user_uuid}
        thirty_days_ago == clock - Horizon
        inactive_sessions == {x \in mine : x.updated_at < thirty_days_ago}
    IN { (sess \ mine) \cup (keep \ inactive_sessions)
         : keep \in TopK(mine, MAX_SESSIONS_PER_USER,
                         [x \in mine |-> x.updated_at]) }

\* A deletion of sessions that leaves their messages
CascadeNone(msgs, sess) == msgs

\* ON DELETE CASCADE / cascade="all, delete-orphan": messages of the
\* sessions that are gone go with them
Cascade(msgs, sess) == {m \in msgs : m.session_id \in {x.id : x \in sess}}

-----------------------------------------------------------------------------
(* The requests and oracle replies the model draws from *)

Procs == {"p1", "p2"}          \* the server workers handling chat requests

NoSessionId == -1              \* ChatRequest.session_id is None
T0 == Horizon + 100            \* the clock at the start of a behaviour
EventTime == T0 + 3600

DefaultTitle == <<"k_sae", " ", "k_dae", "k_hwa">>
QuestionText == <<"k_hal", "k_kka", "k_yo", "?">>
PlainText == <<"d", "o", "n", "e">>
FailureNotice == <<"function_error">>

TurnUsers == {"u1", "u2", "ux"}
RawMessages == { <<"k_eung">>, <<"h", "i">> }
SessionIdInputs == {NoSessionId, 0, 1, 2}
OracleTexts == {QuestionText, PlainText}

Str(s) == Val(s, NULLTIME)     \* a string that is no ISO date
Iso(t) == Val(<<"iso">>, t)    \* the ISO 8601 string of time t

TextPart(t) ==
    [kind |-> "text", name |-> "none", args |-> [none |-> Str(<<>>)], text |-> t]
CallPart(name, args) ==
    [kind |-> "call", name |-> name, args |-> args, text |-> <<>>]

Calls ==
    { CallPart("create_schedule", [title |-> Str(<<"b">>), start_time |-> Iso(EventTime)]),
      CallPart("create_schedule", [title |-> Str(<<"b">>), start_time |-> Str(<<"x">>)]),
      CallPart("create_alarm", [time |-> Iso(EventTime), label |-> Str(<<"v">>)]),
      CallPart("create_alarm", [time |-> Iso(EventTime), label |-> Str(<<>>)]),
      CallPart("get_schedule_info", [title |-> Str(<<"a">>)]),
      CallPart("update_schedule", [title |-> Str(<<"a">>), new_title |-> Str(<<"c">>)]),
      CallPart("update_schedule", [title |-> Str(<<"a">>), new_title |-> Str(<<"c">>),
                                   new_start_time |-> Str(<<"x">>)]),
      CallPart("update_schedule", [title |-> Str(<<"z">>), new_title |-> Str(<<"c">>)]),
      CallPart("delete_schedule", [title |-> Str(<<"a">>)]),
      CallPart("delete_alarm", [label |-> Str(<<"w">>)]),
      CallPart("delete_alarm", [label |-> Str(<<"z">>)]),
      CallPart("search_route", [destination |-> Str(<<"s">>)]),
      CallPart("search_route", [destination |-> Str(<<"s">>),
                                start_location |-> Str(<<"k_yeo", "k_gi">>)]),
      CallPart("get_weather_info", [target_date |-> Str(<<"today">>)]),
      CallPart("get_weather_info", [target_date |-> Str(<<"next_week">>)]),
      CallPart("send_mail", [to |-> Str(<<"a">>)]) }

\* Second calls of a reply that holds two function calls
SecondCalls ==
    { CallPart("create_alarm", [time |-> Iso(EventTime), label |-> Str(<<"v">>)]) }

\* Calls that follow an update_schedule that raised in the same reply
FollowUps ==
    { CallPart("update_alarm", [label |-> Str(<<"w">>), new_label |-> Str(<<"v">>)]),
      CallPart("delete_alarm", [label |-> Str(<<"w">>)]) }

\* response.candidates[0].content.parts
Replies ==
    {<<>>}
    \cup {<<TextPart(t)>> : t \in OracleTexts}
    \cup {<<c>> : c \in Calls}
    \cup {<<c, TextPart(QuestionText)>> : c \in SecondCalls}
    \cup {<<TextPart(QuestionText), c>> : c \in SecondCalls}
    \cup {<<c, d>> : c \in {x \in Calls : x.name \in {"create_schedule", "delete_schedule"}},
                     d \in SecondCalls}
    \cup {<<c, d>> : c \in {x \in Calls : /\ x.name = "update_schedule"
                                           /\ "new_start_time" \in DOMAIN x.args},
                     d \in FollowUps}

-----------------------------------------------------------------------------
(* Rows *)

SessionRow(id, user_uuid, title, updated_at) ==
    [id |-> id, user_uuid |-> user_uuid, title |-> title,
     category |-> "general", updated_at |-> updated_at]

MessageRow(id, session_id, content, is_user, created_at) ==
    [id |-> id, session_id |-> session_id, content |-> content,
     is_user |-> is_user, created_at |-> created_at]

\* The two messages of an earlier turn of a session
SeedTurn(id, session_id, at) ==
    { MessageRow(id, session_id, <<"h", "i">>, TRUE, at),
      MessageRow(id + 1, session_id, QuestionText, FALSE, at) }

\* Repositories earlier requests can have left: user u2 has one session;
\* user u1 has none ("empty"), a recent one and one not used for more than
\* 30 days ("stale"), MAX_SESSIONS_PER_USER of them, the two oldest last
\* used exactly 30 days ago ("capped"), or one that holds
\* MAX_MESSAGES_PER_SESSION messages, its two oldest turns persisted by two
\* workers within the same second ("full")
SeedNames == {"empty", "stale", "capped", "full"}

\* created_at of the j-th turn of the session of seed "full"
FullTurnAt(j) == IF j = 1 THEN T0 - 58 ELSE T0 - 60 + j

SeedSessions(seed) ==
    {SessionRow(1, "u2", DefaultTitle, T0 - 5)} \cup
    CASE seed = "empty" -> {}
      [] seed = "stale" -> { SessionRow(2, "u1", DefaultTitle, T0 - 1),
                             SessionRow(3, "u1", DefaultTitle, T0 - Horizon - 1) }
      [] seed = "capped" ->
             { SessionRow(2, "u1", DefaultTitle, T0 - Horizon),
               SessionRow(3, "u1", DefaultTitle, T0 - Horizon) }
             \cup { SessionRow(i, "u1", DefaultTitle, T0 - (17 - i))
                    : i \in 4..(MAX_SESSIONS_PER_USER + 1) }
      [] seed = "full" ->
             { SessionRow(2, "u1", DefaultTitle,
                          FullTurnAt(MAX_MESSAGES_PER_SESSION \div 2)) }

SeedMessages(seed) ==
    SeedTurn(1, 1, T0 - 5) \cup
    CASE seed = "empty" -> {}
      [] seed = "stale" -> SeedTurn(3, 2, T0 - 1) \cup SeedTurn(5, 3, T0 - Horizon - 1)
      [] seed = "capped" -> SeedTurn(3, 2, T0 - Horizon)
      [] seed = "full" ->
             UNION { SeedTurn(2 * j + 1, 2, FullTurnAt(j))
                     : j \in 1..(MAX_MESSAGES_PER_SESSION \div 2) }

SeedCalendars ==
    { [id |-> 1, user_uuid |-> "u1", event_title |-> <<"a">>,
       event_start_time |-> EventTime, event_end_time |-> NULLTIME,
       description |-> NULLSTR, location_alias |-> NULLSTR],
      [id |-> 2, user_uuid |-> "u2", event_title |-> <<"a">>,
       event_start_time |-> EventTime, event_end_time |-> NULLTIME,
       description |-> NULLSTR, location_alias |-> NULLSTR],
      [id |-> 3, user_uuid |-> "u1", event_title |-> <<"a", "b">>,
       event_start_time |-> EventTime, event_end_time |-> NULLTIME,
       description |-> NULLSTR, location_alias |-> NULLSTR] }

SeedAlarms ==
    { [id |-> 1, user_uuid |-> "u1", alarm_time |-> EventTime, label |-> <<"w">>,
       is_enabled |-> TRUE, repeat_days |-> NULLSTR],
      [id |-> 2, user_uuid |-> "u2", alarm_time |-> EventTime, label |-> <<"w">>,
       is_enabled |-> TRUE, repeat_days |-> NULLSTR],
      [id |-> 3, user_uuid |-> "u1", alarm_time |-> EventTime, label |-> <<"w", "x">>,
       is_enabled |-> TRUE, repeat_days |-> NULLSTR] }

-----------------------------------------------------------------------------
(* The state of one request of chat_with_ai *)

NoRoute == [requested |-> FALSE, start_location |-> NULLSTR, destination |-> NULLSTR]
NoWeather == [requested |-> FALSE, target_date |-> NULLSTR]

\* pc: "idle" before the first request; "query", "parts", "submit",
\* "persist", "retain" inside the handler; "done" (ChatResponse returned),
\* "http404", "http500" (HTTPException raised) after it.
\* The handler reads none of the last six fields: dispatched counts the
\* calls of execute_function_call, last_status is the status of the last
\* one and last_result the dict it returned, submit_failed tells that the
\* second oracle call raised, evicted holds the ids of the sessions the retention step deleted and fault names
\* what raised the HTTPException.
IdleTurn ==
    [pc |-> "idle", user_uuid |-> "none", message |-> <<>>,
     session_id_in |-> NoSessionId, session_id |-> 0, created |-> FALSE,
     processed_message |-> <<>>, was_normalized |-> FALSE,
     parts |-> <<>>, function_called |-> "none", ai_response_text |-> <<>>,
     route_search_data |-> NoRoute, weather_request_data |-> NoWeather,
     dirty |-> {}, message_id |-> 0, dispatched |-> 0, last_status |-> "none",
     last_result |-> Result("none"),
     submit_failed |-> FALSE, evicted |-> {}, fault |-> "none"]

Init ==
    /\ now = T0
    /\ users = [u \in {"u1", "u2"} |-> FALSE]
    /\ \E seed \in SeedNames :
          /\ sessions = SeedSessions(seed)
          /\ messages = SeedMessages(seed)
          /\ nextId = [session |-> MAX_SESSIONS_PER_USER + 2,
                       message |-> IF seed = "full"
                                   THEN MAX_MESSAGES_PER_SESSION + 3 ELSE 7,
                       calendar |-> 4, alarm |-> 4]
    /\ calendars = SeedCalendars
    /\ alarms = SeedAlarms
    /\ turn = [p \in Procs |-> IdleTurn]

\* FindSession without the filter on the owner
FindSessionAnyOwner(session_id, user_uuid) ==
    {x \in sessions : x.id = session_id}

\* The user query without the filter on is_deleted
FindUserWithDeleted(user_uuid) ==
    {u \in DOMAIN users : u = user_uuid}

\* The user query of chat_with_ai and of get_user_by_uuid: the user of this
\* uuid that is not deleted
FindUser(user_uuid) ==
    {u \in DOMAIN users : u = user_uuid /\ ~users[u]}

\* The session query of chat_with_ai: the row with this id and this owner
FindSession(session_id, user_uuid) ==
    {x \in sessions : x.id = session_id /\ x.user_uuid = user_uuid}

\* The rows FindSession must find (used by the claims)
FindSessionOwned(session_id, user_uuid) ==
    {x \in sessions : x.id = session_id /\ x.user_uuid = user_uuid}

\* A request whose session id never counts as given
SessionIdNeverGiven(session_id) == FALSE

\* bool(request.session_id): None and 0 both count as no session id
SessionIdGiven(session_id) == session_id # NoSessionId /\ session_id # 0

\* chat_with_ai up to the oracle call: the user and session lookups, the
\* creation of a session, the history query and the normalisation
StartTurn(p, user_uuid, message, session_id) ==
    /\ turn[p].pc = "idle"
    /\ LET request == [IdleTurn EXCEPT !.user_uuid = user_uuid,
                                       !.message = message,
                                       !.session_id_in = session_id]
           found == FindSession(session_id, user_uuid)
           supplied == SessionIdGiven(session_id)
       IN IF FindUser(user_uuid) = {}
          THEN /\ turn' = [turn EXCEPT ![p] =
                              [request EXCEPT !.pc = "http404", !.fault = "user"]]
               /\ UNCHANGED <<sessions, nextId>>
          ELSE IF supplied /\ found = {}
          THEN /\ turn' = [turn EXCEPT ![p] =
                              [request EXCEPT !.pc = "http404", !.fault = "session"]]
               /\ UNCHANGED <<sessions, nextId>>
          ELSE LET sid == IF supplied THEN session_id ELSE nextId.session IN
               /\ IF supplied
                  THEN UNCHANGED <<sessions, nextId>>
                  ELSE /\ sessions' = sessions \cup
                               {SessionRow(sid, user_uuid, DefaultTitle, now)}
                       /\ nextId' = [nextId EXCEPT !.session = @ + 1]
               /\ \E last_ai_message \in LastAiMessages(sid) :
                     LET n == normalize_short_response(message, last_ai_message) IN
                     turn' = [turn EXCEPT ![p] =
                                 [request EXCEPT
                                     !.pc = "query",
                                     !.session_id = sid,
                                     !.created = ~supplied,
                                     !.processed_message = n.text,
                                     !.was_normalized = n.was_normalized]]
    /\ UNCHANGED <<now, users, messages, calendars, alarms>>

\* model.generate_content / chat.send_message returns the reply
OracleReplies(p, reply) ==
    /\ turn[p].pc = "query"
    /\ turn' = [turn EXCEPT ![p].pc = "parts", ![p].parts = reply]
    /\ UNCHANGED <<now, users, sessions, messages, calendars, alarms, nextId>>

\* model.generate_content / chat.send_message raises: the outer handler
\* rolls back and raises HTTPException(500)
OracleFails(p) ==
    /\ turn[p].pc = "query"
    /\ turn' = [turn EXCEPT ![p].pc = "http500", ![p].fault = "oracle"]
    /\ UNCHANGED <<now, users, sessions, messages, calendars, alarms, nextId>>

\* A loop over the parts that does not move on from a text part
TakeTextPartAgain(p) ==
    /\ turn[p].pc = "parts"
    /\ turn[p].parts # <<>>
    /\ Head(turn[p].parts).kind = "text"
    /\ turn' = [turn EXCEPT ![p].ai_response_text = Head(turn[p].parts).text]
    /\ UNCHANGED <<now, users, sessions, messages, calendars, alarms, nextId>>

\* The loop over the parts meets a text part
TakeTextPart(p) ==
    /\ turn[p].pc = "parts"
    /\ turn[p].parts # <<>>
    /\ Head(turn[p].parts).kind = "text"
    /\ turn' = [turn EXCEPT ![p].ai_response_text = Head(turn[p].parts).text,
                            ![p].parts = Tail(@)]
    /\ UNCHANGED <<now, users, sessions, messages, calendars, alarms, nextId>>

\* db.commit() writes the rows changed in the ORM session
Flush(cal, dirty) ==
    {x \in cal : x.id \notin {d.row.id : d \in dirty}}
    \cup {d.row : d \in {e \in dirty : e.row.id \in {x.id : x \in cal}}}

\* The loop over the parts meets a function call: execute_function_call and
\* the extraction of the route / weather request
Dispatch(p) ==
    /\ turn[p].pc = "parts"
    /\ turn[p].parts # <<>>
    /\ Head(turn[p].parts).kind = "call"
    /\ LET func_call == Head(turn[p].parts)
           db == [cal |-> calendars, alm |-> alarms, ids |-> nextId]
       IN \E o \in execute_function_call(func_call.name, func_call.args,
                                         turn[p].user_uuid, db) :
             LET result == o.result
                 called == [turn[p] EXCEPT !.function_called = func_call.name,
                                           !.dispatched = @ + 1,
                                           !.last_status = result.status,
                                           !.last_result = result]
             IN IF result.status = "raised"
                THEN /\ turn' = [turn EXCEPT ![p] =
                                    [called EXCEPT !.ai_response_text = FailureNotice,
                                                   !.dirty = @ \cup o.dirty,
                                                   !.parts = Tail(@)]]
                     /\ UNCHANGED <<calendars, alarms, nextId>>
                ELSE LET commit == /\ func_call.name \in CommittingFunctions
                                   /\ result.status = "success"
                     IN /\ calendars' = IF commit THEN Flush(o.cal, turn[p].dirty)
                                        ELSE o.cal
                        /\ alarms' = o.alm
                        /\ nextId' = o.ids
                        /\ turn' = [turn EXCEPT ![p] =
                              [called EXCEPT
                                 !.pc = "submit",
                                 !.dirty = IF commit THEN {} ELSE @,
                                 !.route_search_data =
                                     IF /\ func_call.name = "search_route"
                                        /\ result.status = "success"
                                        /\ result.action = "search_route"
                                     THEN [requested |-> TRUE,
                                           start_location |-> result.start_location,
                                           destination |-> result.destination]
                                     ELSE @,
                                 !.weather_request_data =
                                     IF /\ func_call.name = "get_weather_info"
                                        /\ result.action = "get_weather"
                                     THEN [requested |-> TRUE,
                                           target_date |-> result.target_date]
                                     ELSE @]]
    /\ UNCHANGED <<now, users, sessions, messages>>

\* chat.send_message(function_response) returns the final text
SubmitResult(p, text) ==
    /\ turn[p].pc = "submit"
    /\ turn' = [turn EXCEPT ![p].pc = "parts",
                            ![p].ai_response_text = text,
                            ![p].parts = Tail(@)]
    /\ UNCHANGED <<now, users, sessions, messages, calendars, alarms, nextId>>

\* chat.send_message(function_response) raises: caught by the handler of
\* the function call
SubmitFails(p) ==
    /\ turn[p].pc = "submit"
    /\ turn' = [turn EXCEPT ![p].pc = "parts",
                            ![p].ai_response_text = FailureNotice,
                            ![p].submit_failed = TRUE,
                            ![p].parts = Tail(@)]
    /\ UNCHANGED <<now, users, sessions, messages, calendars, alarms, nextId>>

\* NewMessages without the user's message
NewMessagesOnlyReply(t, id, at) ==
    { MessageRow(id + 1, t.session_id, t.ai_response_text, FALSE, at) }

\* NewMessages storing the text that was sent to the oracle
NewMessagesProcessed(t, id, at) ==
    { MessageRow(id, t.session_id, t.processed_message, TRUE, at),
      MessageRow(id + 1, t.session_id, t.ai_response_text, FALSE, at) }

\* The two rows chat_with_ai adds: the request's own text, then the reply
\* The two inserts with ids that do not advance from turn to turn
NewMessagesFirstIds(t, id, at) ==
    { MessageRow(7, t.session_id, t.message, TRUE, at),
      MessageRow(8, t.session_id, t.ai_response_text, FALSE, at) }

NewMessages(t, id, at) ==
    { MessageRow(id, t.session_id, t.message, TRUE, at),
      MessageRow(id + 1, t.session_id, t.ai_response_text, FALSE, at) }

\* After the loop: the fallback to response.text (which raises for a reply
\* without parts), the two inserts, the session's updated_at and db.commit()
Persist(p) ==
    /\ turn[p].pc = "parts"
    /\ turn[p].parts = <<>>
    /\ LET t == turn[p]
           session == {x \in sessions : x.id = t.session_id}
       IN IF t.ai_response_text = <<>>
          THEN /\ turn' = [turn EXCEPT ![p].pc = "http500", ![p].fault = "oracle",
                                       ![p].dirty = {}]
               /\ UNCHANGED <<sessions, messages, calendars, nextId>>
          ELSE IF session = {}
          THEN /\ turn' = [turn EXCEPT ![p].pc = "http500", ![p].fault = "persist",
                                       ![p].dirty = {}]
               /\ UNCHANGED <<sessions, messages, calendars, nextId>>
          ELSE /\ messages' = messages \cup NewMessages(t, nextId.message, now)
               /\ sessions' = {IF x.id = t.session_id
                               THEN [x EXCEPT !.updated_at = now] ELSE x
                               : x \in sessions}
               /\ calendars' = Flush(calendars, t.dirty)
               /\ nextId' = [nextId EXCEPT !.message = @ + 2]
               /\ turn' = [turn EXCEPT ![p].pc = "retain", ![p].dirty = {},
                                       ![p].message_id = nextId.message + 1]
    /\ UNCHANGED <<now, users, alarms>>

\* cleanup_old_messages, cleanup_old_sessions, db.commit() and the response
Retain(p) ==
    /\ turn[p].pc = "retain"
    /\ \E msgs \in cleanup_old_messages(messages, turn[p].session_id) :
       \E sess \in cleanup_old_sessions(sessions, turn[p].user_uuid, now) :
          /\ sessions' = sess
          /\ messages' = Cascade(msgs, sess)
          /\ turn' = [turn EXCEPT ![p].pc = "done",
                                  ![p].evicted = {x.id : x \in sessions \ sess}]
    /\ UNCHANGED <<now, users, calendars, alarms, nextId>>

\* The ChatResponse that chat_with_ai returns at the end of the turn t
ChatResponse(t) ==
    [success |-> TRUE,
     ai_response |-> t.ai_response_text,
     session_id |-> t.session_id,
     message_id |-> t.message_id,
     function_called |-> t.function_called,
     route_search_requested |-> t.route_search_data.requested,
     start_location |-> t.route_search_data.start_location,
     destination |-> t.route_search_data.destination,
     weather_requested |-> t.weather_request_data.requested,
     weather_target_date |-> t.weather_request_data.target_date]

\* What a session management request leaves behind: the HTTP status and the
\* two tables as committed
Managed(status, sess, msgs) ==
    [status |-> status, sessions |-> sess, messages |-> msgs]

\* delete_session that looks the session up by its id alone
delete_session_any_owner(session_id, user_uuid) ==
    IF {x \in sessions : x.id = session_id} = {}
    THEN Managed(404, sessions, messages)
    ELSE LET sess == {x \in sessions : x.id # session_id}
         IN Managed(200, sess, Cascade(messages, sess))

\* DELETE /sessions/{session_id}?user_uuid=
delete_session(session_id, user_uuid) ==
    IF FindSession(session_id, user_uuid) = {}
    THEN Managed(404, sessions, messages)
    ELSE LET sess == {x \in sessions : x.id # session_id}
         IN Managed(200, sess, Cascade(messages, sess))

\* PATCH /sessions/{session_id}?user_uuid=: the title is assigned and
\* committed; the UPDATE that writes a changed title sets updated_at too
\* (onupdate=func.now()), and an unchanged title writes nothing
update_session(session_id, user_uuid, title) ==
    IF FindSession(session_id, user_uuid) = {}
    THEN Managed(404, sessions, messages)
    ELSE Managed(200,
                 {IF x.id = session_id /\ x.title # title
                  THEN [x EXCEPT !.title = title, !.updated_at = now] ELSE x
                  : x \in sessions},
                 messages)

\* ORDER BY updated_at DESC LIMIT k as lists: sessions updated within the
\* same second come in any order
RECURSIVE LatestFirst(_, _)
LatestFirst(S, k) ==
    IF k = 0 \/ S = {} THEN {<<>>}
    ELSE UNION { {<<x>> \o rest : rest \in LatestFirst(S \ {x}, k - 1)}
                 : x \in {y \in S : \A z \in S : z.updated_at <= y.updated_at} }

\* GET /sessions/{user_uuid}: the lists the query can return
get_user_sessions(user_uuid) ==
    LatestFirst(SessionsOf(user_uuid), MAX_SESSIONS_PER_USER)

\* The request DELETE /sessions/{session_id}
DeleteSession(session_id, user_uuid) ==
    /\ delete_session(session_id, user_uuid).status = 200
    /\ sessions' = delete_session(session_id, user_uuid).sessions
    /\ messages' = delete_session(session_id, user_uuid).messages
    /\ UNCHANGED <<now, users, calendars, alarms, nextId, turn>>

\* The request PATCH /sessions/{session_id}
UpdateSession(session_id, user_uuid, title) ==
    /\ update_session(session_id, user_uuid, title).status = 200
    /\ sessions' = update_session(session_id, user_uuid, title).sessions
    /\ messages' = update_session(session_id, user_uuid, title).messages
    /\ UNCHANGED <<now, users, calendars, alarms, nextId, turn>>

\* A second passes
Tick ==
    /\ now < T0 + MaxClockSteps
    /\ now' = now + 1
    /\ UNCHANGED <<users, sessions, messages, calendars, alarms, nextId, turn>>

Next ==
    \/ \E u \in TurnUsers, m \in RawMessages, sid \in SessionIdInputs :
          StartTurn("p1", u, m, sid)
    \/ \E p \in Procs, reply \in Replies : OracleReplies(p, reply)
    \/ \E p \in Procs : OracleFails(p)
    \/ \E p \in Procs : TakeTextPart(p)
    \/ \E p \in Procs : Dispatch(p)
    \/ \E p \in Procs : SubmitResult(p, PlainText)
    \/ \E p \in Procs : SubmitFails(p)
    \/ \E p \in Procs : Persist(p)
    \/ \E p \in Procs : Retain(p)
    \/ DeleteSession(2, "u1")
    \/ Tick

Spec == Init /\ [][Next]_vars

-----------------------------------------------------------------------------
(* The operations on users beside the requests of chat_with_ai *)

NewUsers == {"ux"}              \* the uuids generate_uuid can draw

\* POST /users: a user with a fresh uuid
CreateUser(uuid) ==
    /\ uuid \notin DOMAIN users
    /\ users' = [u \in DOMAIN users \cup {uuid} |->
                    IF u = uuid THEN FALSE ELSE users[u]]
    /\ UNCHANGED <<now, sessions, messages, calendars, alarms, nextId, turn>>

\* DELETE /users/{user_uuid}: soft_delete_user sets is_deleted of the user
\* that get_user_by_uuid finds
soft_delete_user(uuid) ==
    /\ FindUser(uuid) # {}
    /\ users' = [users EXCEPT ![uuid] = TRUE]
    /\ UNCHANGED <<now, sessions, messages, calendars, alarms, nextId, turn>>

\* POST /users/debug/cleanup-inactive: is_deleted is set for the users that
\* are not deleted and whose last_active (any subset of them) is too old
cleanup_inactive_users ==
    /\ \E inactive_users \in SUBSET {u \in DOMAIN users : ~users[u]} :
          /\ inactive_users # {}
          /\ users' = [u \in DOMAIN users |-> users[u] \/ u \in inactive_users]
    /\ UNCHANGED <<now, sessions, messages, calendars, alarms, nextId, turn>>

NextUsers ==
    \/ \E u \in TurnUsers, sid \in {NoSessionId, 1} :
          StartTurn("p1", u, <<"h", "i">>, sid)
    \/ \E p \in Procs, reply \in Replies : OracleReplies(p, reply)
    \/ \E p \in Procs : TakeTextPart(p)
    \/ \E p \in Procs : Dispatch(p)
    \/ \E p \in Procs : SubmitResult(p, PlainText)
    \/ \E p \in Procs : Persist(p)
    \/ \E p \in Procs : Retain(p)
    \/ \E uuid \in NewUsers : CreateUser(uuid)
    \/ \E uuid \in DOMAIN users : soft_delete_user(uuid)
    \/ cleanup_inactive_users

InitUsers ==
    /\ now = T0
    /\ users = [u \in {"u1", "u2"} |-> FALSE]
    /\ sessions = SeedSessions("stale")
    /\ messages = SeedMessages("stale")
    /\ calendars = SeedCalendars
    /\ alarms = SeedAlarms
    /\ nextId = [session |-> MAX_SESSIONS_PER_USER + 2, message |-> 7,
                 calendar |-> 4, alarm |-> 4]
    /\ turn = [p \in Procs |-> IdleTurn]

SpecUsers == InitUsers /\ [][NextUsers]_vars

-----------------------------------------------------------------------------
(* Two workers: requests of one user, without a session id or for the
   user's least recently used session, answered by the oracle with a text,
   run side by side with each other and with the deletion of that session *)

InitWorkers ==
    /\ now = T0
    /\ users = [u \in {"u1", "u2"} |-> FALSE]
    /\ sessions = SeedSessions("capped")
    /\ messages = SeedMessages("capped")
    /\ calendars = SeedCalendars
    /\ alarms = SeedAlarms
    /\ nextId = [session |-> MAX_SESSIONS_PER_USER + 2, message |-> 7,
                 calendar |-> 4, alarm |-> 4]
    /\ turn = [p \in Procs |-> IdleTurn]

NextWorkers ==
    \/ \E p \in Procs, sid \in {NoSessionId, 2} :
          StartTurn(p, "u1", <<"h", "i">>, sid)
    \/ \E p \in Procs : OracleReplies(p, <<TextPart(PlainText)>>)
    \/ \E p \in Procs : TakeTextPart(p)
    \/ \E p \in Procs : Persist(p)
    \/ \E p \in Procs : Retain(p)
    \/ DeleteSession(2, "u1")
    \/ Tick

SpecWorkers == InitWorkers /\ [][NextWorkers]_vars

-----------------------------------------------------------------------------
(* The session management requests beside a turn of user u1 that opens a
   sixteenth session *)

ManagedSessions == {1, 2, 3, MAX_SESSIONS_PER_USER + 2}
ManagingUsers == {"u1", "u2"}
NewTitles == { <<"t">>, DefaultTitle }

InitSessions ==
    /\ now = T0
    /\ users = [u \in {"u1", "u2"} |-> FALSE]
    /\ sessions = SeedSessions("capped")
    /\ messages = SeedMessages("capped")
    /\ calendars = SeedCalendars
    /\ alarms = SeedAlarms
    /\ nextId = [session |-> MAX_SESSIONS_PER_USER + 2, message |-> 7,
                 calendar |-> 4, alarm |-> 4]
    /\ turn = [p \in Procs |-> IdleTurn]

NextSessions ==
    \/ StartTurn("p1", "u1", <<"h", "i">>, NoSessionId)
    \/ \E p \in Procs : OracleReplies(p, <<TextPart(PlainText)>>)
    \/ \E p \in Procs : TakeTextPart(p)
    \/ \E p \in Procs : Persist(p)
    \/ \E p \in Procs : Retain(p)
    \/ \E session_id \in ManagedSessions, user_uuid \in ManagingUsers :
          DeleteSession(session_id, user_uuid)
    \/ \E session_id \in ManagedSessions, user_uuid \in ManagingUsers,
          title \in NewTitles :
          UpdateSession(session_id, user_uuid, title)
    \/ Tick

SpecSessions == InitSessions /\ [][NextSessions]_vars

-----------------------------------------------------------------------------
(* One request from its start to its end, every call of the oracle and of
   the database returning or raising *)

NextTurn ==
    \/ \E u \in TurnUsers, sid \in {NoSessionId, 1, 2} :
          StartTurn("p1", u, <<"h", "i">>, sid)
    \/ \E p \in Procs, reply \in Replies : OracleReplies(p, reply)
    \/ \E p \in Procs : OracleFails(p)
    \/ \E p \in Procs : TakeTextPart(p)
    \/ \E p \in Procs : Dispatch(p)
    \/ \E p \in Procs : SubmitResult(p, PlainText)
    \/ \E p \in Procs : SubmitFails(p)
    \/ \E p \in Procs : Persist(p)
    \/ \E p \in Procs : Retain(p)

\* A call that was made returns or raises, and the handler runs on
TurnProgress ==
    \A p \in Procs :
       /\ WF_vars(\E reply \in Replies : OracleReplies(p, reply) \/ OracleFails(p))
       /\ WF_vars(TakeTextPart(p))
       /\ WF_vars(Dispatch(p))
       /\ WF_vars(SubmitResult(p, PlainText) \/ SubmitFails(p))
       /\ WF_vars(Persist(p))
       /\ WF_vars(Retain(p))

SpecTurn == InitUsers /\ [][NextTurn]_vars /\ TurnProgress

-----------------------------------------------------------------------------
(* Normalisation on its own: a request of user u1, without a session id or
   for a session whose last assistant message is a question or is not one,
   with a message that is a token, a token in other case or with blanks
   around it, or no token *)

LastAiTexts ==
    { QuestionText, PlainText, <<"k_eo", "k_ttae", "k_yo">>,
      <<"o", "k", "?", " ", "o", "k">> }

NormalizeInputs ==
    { <<"k_eung">>, <<"k_ne">>, <<"j_ieung", "j_kieuk">>, <<"c_ieung">>,
      <<"Y", "E", "S">>, <<" ", "o", "k", " ">>, <<"o", " ", "k">>,
      <<"y", "e", "s", "!">>, <<"n", "o">>, <<"N", "O", " ">>,
      <<"k_a", "k_ni">>, <<"j_nieun">>, <<"h", "i">>, <<>>,
      AffirmativeSentence, NegativeSentence }

InitNormalize ==
    /\ now = T0
    /\ users = [u \in {"u1", "u2"} |-> FALSE]
    /\ sessions = SeedSessions("stale")
    /\ \E text \in LastAiTexts :
          messages = SeedTurn(1, 1, T0 - 5)
                     \cup { MessageRow(3, 2, <<"h", "i">>, TRUE, T0 - 1),
                            MessageRow(4, 2, text, FALSE, T0 - 1) }
    /\ calendars = SeedCalendars
    /\ alarms = SeedAlarms
    /\ nextId = [session |-> MAX_SESSIONS_PER_USER + 2, message |-> 7,
                 calendar |-> 4, alarm |-> 4]
    /\ turn = [p \in Procs |-> IdleTurn]

NextNormalize ==
    \E m \in NormalizeInputs, sid \in {NoSessionId, 2} : StartTurn("p1", "u1", m, sid)

SpecNormalize == InitNormalize /\ [][NextNormalize]_vars

-----------------------------------------------------------------------------
(* Dispatch on its own: a request of a user in one of the user's sessions,
   at the point where the oracle has replied with one function call; the
   call is any function name with any choice of its arguments *)

DispatchNames == RegisteredFunctions \cup {"send_mail"}

\* The argument keys a call of the function may carry
DispatchKeys(function_name) ==
    Required(function_name) \cup
    CASE function_name = "create_schedule" -> {"end_time"}
      [] function_name = "get_schedule_info" -> {"title", "search_date"}
      [] function_name = "update_schedule" -> {"new_title", "new_start_time"}
      [] function_name = "update_alarm" -> {"new_time"}
      [] function_name = "search_route" -> {"start_location"}
      [] function_name = "send_mail" -> {"to"}
      [] OTHER -> {}

\* The values a key may carry: the empty string, and strings that are or
\* are not what the function expects
ArgValues(k) ==
    {Str(<<>>)} \cup
    CASE k \in {"start_time", "end_time", "time",
                "new_start_time", "new_time"} -> {Iso(EventTime), Str(<<"x">>)}
      [] k = "search_date" -> {Iso(EventTime - (EventTime % 86400)),
                               Iso(EventTime), Iso(EventTime + 60), Str(<<"x">>)}
      [] k = "start_location" -> {Str(<<"k_yeo", "k_gi">>),
                                  Str(<<"x", "k_ji", "k_geum">>), Str(<<"c">>)}
      [] k = "target_date" -> {Str(<<"today">>), Str(<<"next_week">>)}
      [] k = "title" -> {Str(<<"a">>), Str(<<"b">>), Str(<<"z">>)}
      [] k = "label" -> {Str(<<"w">>), Str(<<"x">>), Str(<<"z">>)}
      [] OTHER -> {Str(<<"c">>)}

AllArgValues == UNION {ArgValues(k) : k \in UNION {DispatchKeys(n) : n \in DispatchNames}}

ArgSets(function_name) ==
    UNION { {args \in [K -> AllArgValues] : \A k \in K : args[k] \in ArgValues(k)}
            : K \in SUBSET DispatchKeys(function_name) }

\* The request after the oracle's reply
InFlight(user_uuid, session_id, reply) ==
    [IdleTurn EXCEPT !.pc = "parts", !.user_uuid = user_uuid,
                     !.message = <<"h", "i">>,
                     !.processed_message = <<"h", "i">>,
                     !.session_id_in = session_id, !.session_id = session_id,
                     !.parts = reply]

InitDispatch ==
    /\ now = T0
    /\ users = [u \in {"u1", "u2"} |-> FALSE]
    /\ sessions = SeedSessions("stale")
    /\ messages = SeedMessages("stale")
    /\ calendars = SeedCalendars
    /\ alarms = SeedAlarms
    /\ nextId = [session |-> MAX_SESSIONS_PER_USER + 2, message |-> 7,
                 calendar |-> 4, alarm |-> 4]
    /\ \E x \in SeedSessions("stale"), name \in DispatchNames :
       \E args \in ArgSets(name) :
          turn = [p \in Procs |->
                     IF p = "p1"
                     THEN InFlight(x.user_uuid, x.id, <<CallPart(name, args)>>)
                     ELSE IdleTurn]

\* The call and the rest of the turn after it
NextDispatch ==
    \/ \E p \in Procs : Dispatch(p)
    \/ \E p \in Procs : SubmitResult(p, PlainText)
    \/ \E p \in Procs : Persist(p)
    \/ \E p \in Procs : Retain(p)

SpecDispatch == InitDispatch /\ [][NextDispatch]_vars

\* Replies of the oracle that create a schedule, ask for it, delete it and
\* ask again with the same arguments
RoundTripTitles == { <<"c", "d">>, <<"a">> }
RoundTripStarts == { EventTime - (EventTime % 86400), EventTime }
RoundTripDates ==
    { EventTime - (EventTime % 86400), EventTime - 60, EventTime, EventTime + 60 }

Substrings(s) ==
    { SubSeq(s, i, j) : i \in 1..Len(s), j \in 1..Len(s) } \ {<<>>}

RoundTripReplies ==
    { LET get == CallPart("get_schedule_info",
                          [title |-> Str(sub), search_date |-> Iso(date)])
      IN << CallPart("create_schedule",
                     [title |-> Str(title), start_time |-> Iso(start)]),
            get,
            CallPart("delete_schedule", [title |-> Str(title)]),
            get >>
      : <<title, start, date, sub>> \in
           { x \in RoundTripTitles \X RoundTripStarts \X RoundTripDates
                     \X UNION {Substrings(t) : t \in RoundTripTitles} :
               x[4] \in Substrings(x[1]) } }

InitRoundTrip ==
    /\ now = T0
    /\ users = [u \in {"u1", "u2"} |-> FALSE]
    /\ sessions = SeedSessions("stale")
    /\ messages = SeedMessages("stale")
    /\ calendars = SeedCalendars
    /\ alarms = SeedAlarms
    /\ nextId = [session |-> MAX_SESSIONS_PER_USER + 2, message |-> 7,
                 calendar |-> 4, alarm |-> 4]
    /\ \E x \in SeedSessions("stale"), reply \in RoundTripReplies :
          turn = [p \in Procs |->
                     IF p = "p1" THEN InFlight(x.user_uuid, x.id, reply)
                     ELSE IdleTurn]

NextRoundTrip ==
    \/ \E p \in Procs : Dispatch(p)
    \/ \E p \in Procs : SubmitResult(p, PlainText)

SpecRoundTrip == InitRoundTrip /\ [][NextRoundTrip]_vars

-----------------------------------------------------------------------------
(* Replies with a function call whose date argument is no ISO 8601 string,
   alone, beside a text part or before a second call *)

FaultyCalls ==
    { CallPart("create_schedule", [title |-> Str(<<"b">>), start_time |-> Str(<<"x">>)]),
      CallPart("create_alarm", [time |-> Str(<<"x">>), label |-> Str(<<"v">>)]),
      CallPart("get_schedule_info", [search_date |-> Str(<<"x">>)]),
      CallPart("update_schedule", [title |-> Str(<<"a">>), new_title |-> Str(<<"c">>),
                                   new_start_time |-> Str(<<"x">>)]),
      CallPart("update_alarm", [label |-> Str(<<"w">>), new_time |-> Str(<<"x">>)]) }

FaultyReplies ==
    {<<c>> : c \in FaultyCalls}
    \cup {<<c, TextPart(QuestionText)>> : c \in FaultyCalls}
    \cup {<<TextPart(QuestionText), c>> : c \in FaultyCalls}
    \cup {<<c, d>> : c \in FaultyCalls, d \in SecondCalls}

InitFault ==
    /\ now = T0
    /\ users = [u \in {"u1", "u2"} |-> FALSE]
    /\ sessions = SeedSessions("stale")
    /\ messages = SeedMessages("stale")
    /\ calendars = SeedCalendars
    /\ alarms = SeedAlarms
    /\ nextId = [session |-> MAX_SESSIONS_PER_USER + 2, message |-> 7,
                 calendar |-> 4, alarm |-> 4]
    /\ \E x \in SeedSessions("stale"), reply \in FaultyReplies :
          turn = [p \in Procs |->
                     IF p = "p1" THEN InFlight(x.user_uuid, x.id, reply)
                     ELSE IdleTurn]

NextFault ==
    \/ \E p \in Procs : TakeTextPart(p)
    \/ \E p \in Procs : Dispatch(p)
    \/ \E p \in Procs : SubmitResult(p, PlainText)
    \/ \E p \in Procs : Persist(p)
    \/ \E p \in Procs : Retain(p)

SpecFault == InitFault /\ [][NextFault]_vars

-----------------------------------------------------------------------------
(* Claims about one request of chat_with_ai, checked under Spec *)

Repository == <<sessions, messages, calendars, alarms, nextId>>

\* C1: in one turn at most one function call is dispatched: of several
\* function-call parts of a reply only the first is executed.
\* (The loop over the parts has no break: it executes every one of them.)
C1_AtMostOneDispatch ==
    \A p \in Procs : turn[p].dispatched <= 1

\* C2, as claimed: a turn that supplies a session id (anything but None)
\* that is not a session of the requesting user ends 404 in its first step,
\* which changes nothing in the repository, and takes no further step (the
\* oracle is never called).
C2_UnownedSessionId_AnyId ==
    [][\A p \in Procs :
          /\ ( /\ turn[p].pc = "idle" /\ turn'[p].pc # "idle"
               /\ turn'[p].fault # "user"
               /\ turn'[p].session_id_in # NoSessionId
               /\ FindSessionOwned(turn'[p].session_id_in, turn'[p].user_uuid) = {} )
             => (turn'[p].pc = "http404" /\ UNCHANGED Repository)
          /\ turn[p].pc = "http404" => turn'[p] = turn[p]
      ]_vars

\* C2, amended: a turn that supplies a session id other than 0 that is not
\* a session of the requesting user ends 404 in its first step, which
\* changes nothing in the repository, and takes no further step (the oracle
\* is never called).
C2_UnownedSessionId ==
    [][\A p \in Procs :
          /\ ( /\ turn[p].pc = "idle" /\ turn'[p].pc # "idle"
               /\ turn'[p].fault # "user"
               /\ turn'[p].session_id_in \notin {NoSessionId, 0}
               /\ FindSessionOwned(turn'[p].session_id_in, turn'[p].user_uuid) = {} )
             => (turn'[p].pc = "http404" /\ UNCHANGED Repository)
          /\ turn[p].pc = "http404" => turn'[p] = turn[p]
      ]_vars

\* C2 witness: user u1 named session 1, which exists and belongs to u2, and
\* the turn ended 404
C2_Witness ==
    \E p \in Procs :
       /\ turn[p].pc = "http404" /\ turn[p].fault = "session"
       /\ turn[p].user_uuid = "u1" /\ turn[p].session_id_in = 1
       /\ \E x \in sessions : x.id = 1 /\ x.user_uuid = "u2"

\* C3: when the first oracle call fails the turn ends with an error and
\* nothing it wrote is left, also when it supplied no session id (then the
\* session it created is not in the table).
\* (The session is committed before the oracle call; the rollback of the
\* error handler has nothing left to undo.)
C3_OracleFaultPersistsNothing ==
    \A p \in Procs :
       (turn[p].pc = "http500" /\ turn[p].fault = "oracle" /\ turn[p].created)
          => turn[p].session_id \notin {x.id : x \in sessions}

\* C4: when the oracle call that submits the function result fails, the
\* turn persists no message and returns no success response.
\* (The failure is caught with the dispatch faults: the turn persists a
\* failure notice and returns success.)
C4_SubmitFaultSkipsPersist ==
    \A p \in Procs :
       turn[p].submit_failed => turn[p].pc \notin {"retain", "done"}

\* The step of worker p is the one in which chat_with_ai commits its two
\* messages
PersistStep(p) == turn[p].pc = "parts" /\ turn'[p].pc = "retain"

\* C5: every successful turn adds exactly two messages to its session, a
\* user message and then an assistant message that carries the final text,
\* and leaves the session with an updated time no earlier than that of any
\* other session of the user; no other step of a turn adds a message, and a
\* turn that ends in an error has added none.
C5_TwoMessagesPerTurn ==
    /\ [][LET added == messages' \ messages IN
          /\ \A p \in Procs : PersistStep(p) =>
                /\ messages \subseteq messages'
                /\ \E u, a \in added :
                      /\ added = {u, a}
                      /\ u.is_user /\ ~a.is_user /\ u.id < a.id
                      /\ u.session_id = turn[p].session_id
                      /\ a.session_id = turn[p].session_id
                      /\ a.content = turn'[p].ai_response_text
                      /\ a.id = turn'[p].message_id
                /\ \E x \in sessions' :
                      /\ x.id = turn[p].session_id
                      /\ x.user_uuid = turn[p].user_uuid
                      /\ \A y \in sessions' :
                            y.user_uuid = x.user_uuid => y.updated_at <= x.updated_at
          /\ added # {} => \E p \in Procs : PersistStep(p)
         ]_vars
    /\ [](\A p \in Procs :
             /\ turn[p].pc \in {"http404", "http500"} => turn[p].message_id = 0
             /\ turn[p].pc = "done" => turn[p].message_id > 0)

\* C5 witness: a turn of u1 has committed its two messages in a session
\* that is not the only one of the user, after a function call
C5_Witness ==
    \E p \in Procs :
       /\ turn[p].pc = "retain" /\ turn[p].function_called # "none"
       /\ \E u, a \in MessagesOf(turn[p].session_id) :
             u.is_user /\ ~a.is_user /\ a.id = turn[p].message_id /\ u.id = a.id - 1
       /\ \E y \in SessionsOf(turn[p].user_uuid) :
             y.id # turn[p].session_id /\ y.updated_at < now

\* C6: the user message a turn stores holds the raw request text, also when
\* the normaliser rewrote it for the oracle
C6_RawTextStored ==
    [][\A p \in Procs : PersistStep(p) =>
          \A m \in messages' \ messages :
             m.is_user => /\ m.content = turn[p].message
                          /\ turn[p].was_normalized =>
                                 m.content # turn[p].processed_message
      ]_vars

\* C6 witness: a turn whose text was normalised for the oracle is done and
\* its user message holds the terse reply
C6_Witness ==
    \E p \in Procs :
       /\ turn[p].pc = "done" /\ turn[p].was_normalized
       /\ turn[p].processed_message = AffirmativeSentence
       /\ \E m \in messages :
             m.id = turn[p].message_id - 1 /\ m.is_user /\ m.content = <<"k_eung">>

\* A call that fails a business rule: an unknown function, an update or
\* delete whose identifier no record of the user contains, a weather target
\* outside the enum
BusinessFailure(call, user_uuid) ==
    \/ call.name \notin RegisteredFunctions
    \/ /\ call.name \in {"update_schedule", "delete_schedule"}
       /\ Truthy(call.args, "title")
       /\ ~\E e \in calendars : /\ e.user_uuid = user_uuid
                                /\ IsSubstring(call.args["title"].s, e.event_title)
    \/ /\ call.name \in {"update_alarm", "delete_alarm"}
       /\ Truthy(call.args, "label")
       /\ ~\E a \in alarms : /\ a.user_uuid = user_uuid
                             /\ IsSubstring(call.args["label"].s, a.label)
    \/ /\ call.name = "get_weather_info"
       /\ Truthy(call.args, "target_date")
       /\ call.args["target_date"].s \notin valid_dates

\* C8: a business-rule failure of the dispatch is an error result, not an
\* exception, and changes nothing in the repository; the turn goes on to
\* submit the result to the oracle, and it ends with a success response and
\* its messages persisted (it can only end in an error when the session was
\* deleted under it before the messages were written).
C8_BusinessFailureInBand ==
    /\ [][\A p \in Procs :
             ( /\ turn[p].pc = "parts" /\ turn[p].parts # <<>>
               /\ Head(turn[p].parts).kind = "call"
               /\ BusinessFailure(Head(turn[p].parts), turn[p].user_uuid)
               /\ turn'[p] # turn[p] )
             => /\ turn'[p].last_status = "error"
                /\ turn'[p].pc = "submit"
                /\ turn'[p].ai_response_text # FailureNotice
                /\ UNCHANGED Repository
         ]_vars
    /\ [](\A p \in Procs : turn[p].last_status = "error" =>
             \/ turn[p].pc \in {"submit", "parts", "retain"}
             \/ turn[p].pc = "done" /\ turn[p].message_id > 0
             \/ /\ turn[p].pc = "http500" /\ turn[p].fault = "persist"
                /\ turn[p].session_id \notin {x.id : x \in sessions})

\* C8 witness: an update_schedule that matched no record was answered, the
\* two messages are stored and the turn returned success
C8_Witness ==
    \E p \in Procs :
       /\ turn[p].pc = "done" /\ turn[p].function_called = "update_schedule"
       /\ turn[p].last_status = "error" /\ turn[p].dispatched = 1
       /\ \E u, a \in MessagesOf(turn[p].session_id) :
             u.is_user /\ a.id = turn[p].message_id /\ u.id = a.id - 1

\* The step of worker p is the retention step of its turn
RetainStep(p) == turn[p].pc = "retain" /\ turn'[p].pc = "done"

\* C9: after the retention step of a turn the user has at most 15 sessions,
\* and every session the step deleted was updated no later than every
\* session it kept.
C9_SessionCap ==
    [][\A p \in Procs : RetainStep(p) =>
          LET before == {x \in sessions : x.user_uuid = turn[p].user_uuid}
              after == {x \in sessions' : x.user_uuid = turn[p].user_uuid}
          IN /\ Cardinality(after) <= 15
             /\ after \subseteq before
             /\ \A d \in before \ after, k \in after : d.updated_at <= k.updated_at
      ]_vars

\* C9 witness: the user had 15 sessions, the turn created a 16th and the
\* retention step deleted one of the two oldest, which were not yet 30 days
\* old, and kept the other
C9_Witness ==
    \E p \in Procs :
       /\ turn[p].pc = "done" /\ turn[p].created
       /\ Cardinality(SessionsOf(turn[p].user_uuid)) = 15
       /\ Cardinality(turn[p].evicted) = 1
       /\ \E x \in SessionsOf(turn[p].user_uuid) :
             x.updated_at = T0 - Horizon /\ x.updated_at >= now - Horizon

\* C10: after the retention step of a turn no session of the user was last
\* updated more than 30 days before the step ran.
C10_AgeEviction ==
    [][\A p \in Procs : RetainStep(p) =>
          \A x \in sessions' :
             x.user_uuid = turn[p].user_uuid => x.updated_at >= now - 30 * 86400
      ]_vars

\* C10 witness: a user with fewer than 15 sessions lost one to the
\* retention step
C10_Witness ==
    \E p \in Procs :
       /\ turn[p].pc = "done"
       /\ turn[p].evicted # {}
       /\ Cardinality(SessionsOf(turn[p].user_uuid)) + Cardinality(turn[p].evicted) < 15

-----------------------------------------------------------------------------
(* Claims about execute_function_call, checked under SpecDispatch *)

\* A required key of the call is absent or empty
MissingRequired(call) ==
    \E k \in Required(call.name) :
       k \notin DOMAIN call.args \/ call.args[k].s = <<>>

\* C7: a dispatch of a registered function with a required key absent or
\* empty returns an error and leaves the repository exactly as it was; a
\* dispatch returns success or pending only when every required key is
\* present and not empty.
C7_RequiredKeys ==
    [][\A p \in Procs :
          ( /\ turn[p].pc = "parts" /\ turn[p].parts # <<>>
            /\ Head(turn[p].parts).kind = "call"
            /\ turn'[p] # turn[p] )
          => LET call == Head(turn[p].parts) IN
             /\ (call.name \in RegisteredFunctions /\ MissingRequired(call))
                   => /\ turn'[p].last_status = "error"
                      /\ UNCHANGED Repository
                      /\ turn'[p].dirty = {}
             /\ turn'[p].last_status \in {"success", "pending"}
                   => ~MissingRequired(call)
      ]_vars

\* C7 witness: create_schedule was dispatched with a title and without a
\* start time and returned an error
C7_Witness ==
    \E p \in Procs :
       /\ turn[p].dispatched = 1 /\ turn[p].last_status = "error"
       /\ turn[p].function_called = "create_schedule"
       /\ turn[p].parts # <<>>
       /\ "title" \in DOMAIN Head(turn[p].parts).args
       /\ Head(turn[p].parts).args["title"].s # <<>>
       /\ "start_time" \notin DOMAIN Head(turn[p].parts).args
       /\ calendars = SeedCalendars

-----------------------------------------------------------------------------
(* Claims about retention and the history, checked under Spec *)

\* C11: after the retention step the session of the turn holds at most 50
\* messages, every message the step deleted from it was created no later
\* than every message it kept, and creation time alone decides which ones
\* go: no deleted message has the creation time of a kept one.
\* (created_at has a resolution of one second and the query orders by it
\* alone: of messages created within the same second any can go.)
C11_MessageCap ==
    [][\A p \in Procs : RetainStep(p) =>
          LET before == {m \in messages : m.session_id = turn[p].session_id}
              after == {m \in messages' : m.session_id = turn[p].session_id}
          IN /\ Cardinality(after) <= 50
             /\ after \subseteq before
             /\ (after # {}) =>
                   \A d \in before \ after, k \in after : d.created_at < k.created_at
      ]_vars

\* C12: whenever no turn is in progress every user has at most 15 sessions
\* and every session has at most 50 messages, whether the turns before
\* succeeded or failed.
\* (A turn that fails after it created its session never reaches retention.)
C12_BoundedStore ==
    (\A p \in Procs : turn[p].pc \in {"idle", "done", "http404", "http500"})
       => /\ \A u \in DOMAIN users :
                Cardinality({x \in sessions : x.user_uuid = u}) <= 15
          /\ \A x \in sessions :
                Cardinality({m \in messages : m.session_id = x.id}) <= 50

\* C13: retention is idempotent: run again right after the retention step
\* of a turn, with no write in between and the clock where it was, the
\* message cap of the session and the age eviction and session cap of the
\* user delete nothing.
C13_RetentionIdempotent ==
    [][\A p \in Procs : RetainStep(p) =>
          /\ cleanup_old_messages(messages', turn[p].session_id) = {messages'}
          /\ cleanup_old_sessions(sessions', turn[p].user_uuid, now') = {sessions'}
          /\ Cascade(messages', sessions') = messages'
      ]_vars

\* C13 witness: a retention step has deleted a session and left the user
\* with 15 of them, of which a second run deletes none
C13_Witness ==
    \E p \in Procs :
       /\ turn[p].pc = "done" /\ turn[p].evicted # {}
       /\ turn[p].session_id \in {x.id : x \in sessions}
       /\ Cardinality(SessionsOf(turn[p].user_uuid)) = MAX_SESSIONS_PER_USER
       /\ cleanup_old_sessions(sessions, turn[p].user_uuid, now) = {sessions}

-----------------------------------------------------------------------------
(* Claims about requests served side by side, checked under SpecWorkers *)

\* C14: in every reachable state, however turns, deletions of sessions and
\* retention steps interleave, every stored message belongs to a stored
\* session: a message is never left behind by the deletion of its session
\* and never written for a session that is gone.
C14_NoOrphanMessage ==
    \A m \in messages : \E x \in sessions : x.id = m.session_id

\* C14 witness: a worker's turn for a session that held messages failed to
\* persist because the retention step of the other worker's turn had
\* deleted the session, and no message of that session is stored
C14_Witness ==
    \E p, q \in Procs :
       /\ p # q
       /\ turn[p].pc = "http500" /\ turn[p].fault = "persist"
       /\ turn[p].session_id = 2
       /\ turn[q].pc = "done" /\ turn[p].session_id \in turn[q].evicted
       /\ ~\E m \in messages : m.session_id = turn[p].session_id

-----------------------------------------------------------------------------
(* Claims about normalize_short_response, checked under SpecNormalize *)

\* The assistant texts of the session of the request of worker p
AssistantTexts(p) ==
    {m.content : m \in {x \in messages :
                           x.session_id = turn[p].session_id /\ ~x.is_user}}

\* An assistant text of the session holds an interrogative cue
CueBefore(p) ==
    \E last \in AssistantTexts(p) :
       \E cue \in question_patterns : IsSubstring(cue, last)

\* C15: the text sent to the oracle is the canonical affirmative sentence
\* (the canonical negative sentence), flagged as normalised, exactly when
\* the session has a last assistant text, that text holds an interrogative
\* cue and the user's text, trimmed and in lower case, is a token of the
\* affirmative (negative) set; in every other case it is the user's text
\* as it came, not flagged.
C15_NormalizeExact ==
    \A p \in Procs : turn[p].pc = "query" =>
       LET t == turn[p]
           token == Lower(Strip(t.message))
           yes == CueBefore(p) /\ token \in positive_patterns
           no == CueBefore(p) /\ token \in negative_patterns
       IN /\ yes => t.processed_message = AffirmativeSentence /\ t.was_normalized
          /\ no => t.processed_message = NegativeSentence /\ t.was_normalized
          /\ ~(yes \/ no) => t.processed_message = t.message /\ ~t.was_normalized

\* C15 witness: "NO " after a question became the negative sentence
C15_Witness ==
    \E p \in Procs :
       /\ turn[p].pc = "query" /\ turn[p].message = <<"N", "O", " ">>
       /\ CueBefore(p)
       /\ turn[p].processed_message = NegativeSentence /\ turn[p].was_normalized

\* C16: normalising the text that normalisation returned, against the same
\* last assistant text, returns it as it is and not flagged.
C16_NormalizeIdempotent ==
    \A p \in Procs : turn[p].pc = "query" =>
       \A last \in (IF AssistantTexts(p) = {} THEN {NULLSTR} ELSE AssistantTexts(p)) :
          LET once == normalize_short_response(turn[p].message, last)
              twice == normalize_short_response(once.text, last)
          IN /\ once.text = turn[p].processed_message
             /\ once.was_normalized = turn[p].was_normalized
             /\ twice = [text |-> once.text, was_normalized |-> FALSE]

\* C16 witness: a token after a question became the affirmative sentence,
\* which normalisation leaves alone
C16_Witness ==
    \E p \in Procs :
       /\ turn[p].pc = "query" /\ turn[p].message = <<"k_eung">>
       /\ CueBefore(p)
       /\ turn[p].processed_message = AffirmativeSentence /\ turn[p].was_normalized
       /\ ~normalize_short_response(AffirmativeSentence, QuestionText).was_normalized

-----------------------------------------------------------------------------
(* Claims about the history and about updates and deletions *)

\* The step of worker p takes its request to the oracle call
QueryStep(p) == turn[p].pc = "idle" /\ turn'[p].pc = "query"

\* C17: the history handed to the oracle for a session with n messages is
\* the min(n, 10) messages of that session persisted last, in the order in
\* which they were persisted (ids ascending), so that the user message of
\* a turn stands before its assistant message.
\* (The two messages of a turn get the same created_at, the only ordering
\* column of the query: the list can hold them in either order.)
C17_HistoryOrder ==
    [][\A p \in Procs : QueryStep(p) =>
          LET stored == {m \in messages : m.session_id = turn'[p].session_id}
              n == Cardinality(stored)
          IN \A h \in conversation_history(turn'[p].session_id) :
                /\ Len(h) = IF n < 10 THEN n ELSE 10
                /\ \A i \in 1..Len(h) : h[i] \in stored
                /\ \A i \in 1..Len(h), m \in stored :
                      (\A j \in 1..Len(h) : h[j] # m) => m.id < h[i].id
                /\ \A i, j \in 1..Len(h) : i < j => h[i].id < h[j].id
      ]_vars

\* The step of worker p is a call of execute_function_call
DispatchStep(p) ==
    /\ turn[p].pc = "parts" /\ turn[p].parts # <<>>
    /\ Head(turn[p].parts).kind = "call"
    /\ turn'[p] # turn[p]

\* Every date among the arguments of the call is an ISO 8601 string
WellFormedDates(call) ==
    \A k \in DOMAIN call.args :
       k \in {"new_start_time", "new_end_time", "new_time"}
          => call.args[k].s = <<>> \/ call.args[k].iso >= 0

\* The records of the user that the identifier of the call matches by
\* substring
SubstringMatches(call, user_uuid) ==
    IF call.name \in {"update_schedule", "delete_schedule"}
    THEN {e \in calendars : /\ e.user_uuid = user_uuid
                            /\ IsSubstring(call.args["title"].s, e.event_title)}
    ELSE {a \in alarms : /\ a.user_uuid = user_uuid
                         /\ IsSubstring(call.args["label"].s, a.label)}

\* C18: update_schedule, update_alarm, delete_schedule and delete_alarm,
\* called with an identifier and well-formed dates, return success whenever
\* the user owns a record whose title / label contains the identifier, and
\* an error only when the user owns none.
\* (The queries compare the title / label with == .)
C18_SubstringMatch ==
    [][\A p \in Procs : DispatchStep(p) =>
          LET call == Head(turn[p].parts)
              key == IF call.name \in {"update_schedule", "delete_schedule"}
                     THEN "title" ELSE "label"
          IN ( /\ call.name \in {"update_schedule", "delete_schedule",
                                 "update_alarm", "delete_alarm"}
               /\ key \in DOMAIN call.args /\ call.args[key].s # <<>>
               /\ WellFormedDates(call) )
             => (turn'[p].last_status = "success"
                    <=> SubstringMatches(call, turn[p].user_uuid) # {})
      ]_vars

\* The value of a column after an update whose argument k may set it
Updated(call, k, old) ==
    IF k \in DOMAIN call.args /\ call.args[k].s # <<>>
    THEN (IF k \in {"new_start_time", "new_end_time", "new_time"}
          THEN call.args[k].iso ELSE call.args[k].s)
    ELSE old

\* C19: a successful update_schedule or update_alarm changes at most one
\* record, one of the requesting user, and in it the columns whose new
\* value is among the arguments and no other; it creates and deletes no
\* record and leaves every other record as it was.
\* (Its db.commit() also writes what an earlier call of the same reply
\* assigned before it raised.)
C19_PartialUpdate ==
    [][\A p \in Procs :
          ( /\ DispatchStep(p)
            /\ Head(turn[p].parts).name \in {"update_schedule", "update_alarm"}
            /\ turn'[p].last_status = "success" )
          => LET call == Head(turn[p].parts) IN
             /\ {e.id : e \in calendars'} = {e.id : e \in calendars}
             /\ {a.id : a \in alarms'} = {a.id : a \in alarms}
             /\ Cardinality((calendars \ calendars') \cup (alarms \ alarms')) <= 1
             /\ call.name = "update_alarm" => calendars' = calendars
             /\ call.name = "update_schedule" => alarms' = alarms
             /\ \A e \in calendars \ calendars' :
                   /\ e.user_uuid = turn[p].user_uuid
                   /\ [e EXCEPT
                         !.event_title = Updated(call, "new_title", @),
                         !.event_start_time = Updated(call, "new_start_time", @),
                         !.event_end_time = Updated(call, "new_end_time", @),
                         !.description = Updated(call, "new_description", @),
                         !.location_alias = Updated(call, "new_location", @)]
                         \in calendars'
             /\ \A a \in alarms \ alarms' :
                   /\ a.user_uuid = turn[p].user_uuid
                   /\ [a EXCEPT !.alarm_time = Updated(call, "new_time", @),
                                !.label = Updated(call, "new_label", @)]
                         \in alarms'
      ]_vars

\* C20: a successful delete_schedule or delete_alarm removes exactly one
\* record, one of the requesting user whose title / label contains the
\* identifier, and leaves every other record as it was; when it returns an
\* error no record is removed or changed.
\* (Its db.commit() also writes what an earlier call of the same reply
\* assigned before it raised.)
C20_DeleteOne ==
    [][\A p \in Procs :
          ( /\ DispatchStep(p)
            /\ Head(turn[p].parts).name \in {"delete_schedule", "delete_alarm"} )
          => LET call == Head(turn[p].parts) IN
             /\ turn'[p].last_status = "success" =>
                   \E r \in SubstringMatches(call, turn[p].user_uuid) :
                      IF call.name = "delete_schedule"
                      THEN calendars' = calendars \ {r} /\ alarms' = alarms
                      ELSE alarms' = alarms \ {r} /\ calendars' = calendars
             /\ turn'[p].last_status = "error" =>
                   calendars' = calendars /\ alarms' = alarms
      ]_vars

-----------------------------------------------------------------------------
(* Claims about the read-only functions and the response *)

\* The ids of the records of the user that get_schedule_info is to return:
\* those whose title contains the title argument, when there is one, and
\* that start on the calendar day of the date argument, when there is one
SchedulesOfDay(call, user_uuid) ==
    {e.id : e \in
       {x \in calendars :
          /\ x.user_uuid = user_uuid
          /\ ("title" \in DOMAIN call.args /\ call.args["title"].s # <<>>)
                => IsSubstring(call.args["title"].s, x.event_title)
          /\ ("search_date" \in DOMAIN call.args /\ call.args["search_date"].s # <<>>)
                => LET day == call.args["search_date"].iso
                                 - (call.args["search_date"].iso % 86400)
                   IN day <= x.event_start_time /\ x.event_start_time < day + 86400}}

\* C21: get_schedule_info with a date returns exactly the records of the
\* requesting user (whose title contains the title argument, if given) that
\* start on the calendar day of the date, from the start of that day to the
\* start of the next, whatever time of day the date carries.
\* (The query runs from the date as given to 24 hours after it.)
C21_CalendarDay ==
    [][\A p \in Procs :
          ( /\ DispatchStep(p)
            /\ Head(turn[p].parts).name = "get_schedule_info"
            /\ "search_date" \in DOMAIN Head(turn[p].parts).args
            /\ Head(turn[p].parts).args["search_date"].iso >= 0 )
          => /\ turn'[p].last_result.status = "success"
             /\ turn'[p].last_result.events
                   = SchedulesOfDay(Head(turn[p].parts), turn[p].user_uuid)
      ]_vars

\* C22: get_schedule_info is read-only and never fails: for every user and
\* every set of arguments it returns status success (with an empty list when
\* nothing matches) and creates, changes or deletes no record.
\* (A search_date that is no ISO 8601 string makes datetime.fromisoformat
\* raise: the call returns no result at all.)
C22_ScheduleInfoSucceeds ==
    [][\A p \in Procs :
          (DispatchStep(p) /\ Head(turn[p].parts).name = "get_schedule_info")
          => /\ turn'[p].last_result.status = "success"
             /\ UNCHANGED <<calendars, alarms, nextId, sessions, messages>>
      ]_vars

\* The schedule created in the turn (the seeds end below this id)
CreatedInTurn == {e \in calendars : e.id >= 4}

\* C23: round trip of a schedule: after create_schedule succeeded for a
\* user, get_schedule_info with a substring of its title and a date whose
\* calendar day covers its start time returns the record; after
\* delete_schedule succeeded for it, the same call does not return it.
\* (The query starts at the time of day of the date: a date later in the
\* day than the start misses the record.)
C23_RoundTrip ==
    [][\A p \in Procs :
          (DispatchStep(p) /\ Head(turn[p].parts).name = "get_schedule_info")
          => LET get == Head(turn[p].parts)
                 day == get.args["search_date"].iso
                           - (get.args["search_date"].iso % 86400)
             IN \A id \in 4..(nextId.calendar - 1) :
                   id \in turn'[p].last_result.events
                   <=> \E e \in CreatedInTurn :
                          /\ e.id = id
                          /\ e.user_uuid = turn[p].user_uuid
                          /\ IsSubstring(get.args["title"].s, e.event_title)
                          /\ day <= e.event_start_time
                          /\ e.event_start_time < day + 86400
      ]_vars

\* C24: search_route with a destination and no start location returns
\* status pending with require_location_confirmation set, not an error;
\* search_route and get_weather_info create, change and delete no domain
\* record, whatever their arguments and their result.
C24_PendingAndReadOnly ==
    [][\A p \in Procs : DispatchStep(p) =>
          LET call == Head(turn[p].parts)
          IN /\ ( /\ call.name = "search_route"
                  /\ Truthy(call.args, "destination")
                  /\ ~Truthy(call.args, "start_location") )
                => /\ turn'[p].last_result.status = "pending"
                   /\ turn'[p].last_result.require_location_confirmation
                   /\ turn'[p].last_result.destination
                         = call.args["destination"].s
             /\ call.name \in {"search_route", "get_weather_info"}
                => UNCHANGED <<calendars, alarms, nextId>>
      ]_vars

C24_Witness ==
    \E p \in Procs :
       /\ turn[p].function_called = "search_route"
       /\ turn[p].last_result.status = "pending"
       /\ turn[p].last_result.require_location_confirmation
       /\ calendars = SeedCalendars /\ alarms = SeedAlarms

\* C25: when the dispatch of search_route returned pending with the
\* location-confirmation flag, the response of the turn carries the pending
\* action to the caller; and every action flag the dispatch raised (route
\* search, weather lookup) appears in the response of the turn.
\* (ChatResponse has no field for a pending action, and the route data are
\* filled on status success only: the response of such a turn is that of a
\* turn without any request.)
C25_PendingInResponse ==
    \A p \in Procs :
       turn[p].pc = "done" =>
          LET result == turn[p].last_result
              response == ChatResponse(turn[p])
          IN /\ (result.status = "pending" /\ result.require_location_confirmation)
                => \/ response.route_search_requested
                   \/ response.destination = result.destination
             /\ result.action = "search_route" => response.route_search_requested
             /\ result.action = "get_weather" => response.weather_requested

\* C26: search_route with a destination and a start location returns
\* success with the destination and with a start that is CURRENT_LOCATION
\* exactly when the given start location contains one of the here/now words,
\* and the given start location otherwise; the response of the turn then
\* requests a route search with that start and that destination.
C26_RouteRequest ==
    [][\A p \in Procs :
          /\ ( /\ DispatchStep(p)
               /\ Head(turn[p].parts).name = "search_route"
               /\ Truthy(Head(turn[p].parts).args, "destination")
               /\ Truthy(Head(turn[p].parts).args, "start_location") )
             => LET args == Head(turn[p].parts).args
                    result == turn'[p].last_result
                    here == \E keyword \in here_keywords :
                               IsSubstring(keyword, args["start_location"].s)
                IN /\ result.status = "success"
                   /\ result.destination = args["destination"].s
                   /\ here => result.start_location = CURRENT_LOCATION
                   /\ ~here => result.start_location = args["start_location"].s
          /\ ( /\ turn[p].pc # "done" /\ turn'[p].pc = "done"
               /\ turn'[p].last_result.action = "search_route" )
             => LET response == ChatResponse(turn'[p])
                IN /\ response.success
                   /\ response.route_search_requested
                   /\ response.start_location = turn'[p].last_result.start_location
                   /\ response.destination = turn'[p].last_result.destination
      ]_vars

C26_Witness ==
    \E p \in Procs :
       /\ turn[p].pc = "done"
       /\ turn[p].function_called = "search_route"
       /\ ChatResponse(turn[p]).route_search_requested
       /\ ChatResponse(turn[p]).start_location = CURRENT_LOCATION
       /\ ChatResponse(turn[p]).destination = <<"c">>

\* C27: get_weather_info returns success exactly when the target day is
\* today, tomorrow or day_after_tomorrow, and error for every other value;
\* the response of the turn requests a weather lookup, with that target
\* day, only when the dispatch returned success.
C27_WeatherRequest ==
    [][\A p \in Procs :
          /\ (DispatchStep(p) /\ Head(turn[p].parts).name = "get_weather_info")
             => LET args == Head(turn[p].parts).args
                    result == turn'[p].last_result
                    valid == /\ "target_date" \in DOMAIN args
                             /\ args["target_date"].s \in
                                   { <<"today">>, <<"tomorrow">>,
                                     <<"day_after_tomorrow">> }
                IN /\ valid => /\ result.status = "success"
                               /\ result.target_date = args["target_date"].s
                   /\ ~valid => result.status = "error"
          /\ (turn[p].pc # "done" /\ turn'[p].pc = "done")
             => LET response == ChatResponse(turn'[p])
                    result == turn'[p].last_result
                IN /\ response.weather_requested
                      => /\ turn'[p].function_called = "get_weather_info"
                         /\ result.status = "success"
                         /\ response.weather_target_date = result.target_date
                   /\ ( /\ turn'[p].function_called = "get_weather_info"
                        /\ result.status = "success" )
                      => response.weather_requested
      ]_vars

C27_Witness ==
    \E p \in Procs :
       /\ turn[p].pc = "done"
       /\ turn[p].function_called = "get_weather_info"
       /\ turn[p].last_result.status = "success"
       /\ ChatResponse(turn[p]).weather_requested
       /\ ChatResponse(turn[p]).weather_target_date = <<"today">>

\* A turn whose weather call named a day out of range ends without a request
C27_WitnessError ==
    \E p \in Procs :
       /\ turn[p].pc = "done"
       /\ turn[p].function_called = "get_weather_info"
       /\ turn[p].last_result.status = "error"
       /\ ~ChatResponse(turn[p]).weather_requested

\* The rows of the four tables that are not the user's: the sessions of the
\* others with their messages, and the others' schedules and alarms
RowsOfOthers(user_uuid, S, M, C, A) ==
    [sessions |-> {x \in S : x.user_uuid # user_uuid},
     messages |-> {m \in M : \E x \in S : /\ x.id = m.session_id
                                          /\ x.user_uuid # user_uuid},
     calendars |-> {e \in C : e.user_uuid # user_uuid},
     alarms |-> {a \in A : a.user_uuid # user_uuid}]

C29_SoftDeletePermanent ==
    [][/\ \A u \in DOMAIN users :
             u \in DOMAIN users' /\ (users[u] => users'[u])
       /\ \A p \in Procs :
             /\ ( /\ turn[p].pc = "idle" /\ turn'[p].pc # "idle"
                  /\ turn'[p].user_uuid \in DOMAIN users
                  /\ users[turn'[p].user_uuid] )
                => /\ turn'[p].pc = "http404"
                   /\ UNCHANGED Repository
             /\ turn[p].pc = "http404" => turn'[p] = turn[p]
      ]_vars

\* The turn of a deleted user that owns sessions and records ended 404
C29_Witness ==
    \E p \in Procs :
       /\ turn[p].pc = "http404"
       /\ turn[p].fault = "user"
       /\ turn[p].user_uuid = "u1"
       /\ users["u1"]
       /\ \E x \in sessions : x.user_uuid = "u1"

\* The sessions created since the start (the seeds end below this id)
CreatedSessions == {x \in sessions : x.id >= MAX_SESSIONS_PER_USER + 2}

\* C30: a turn that supplies no session id creates exactly one session,
\* owned by the requesting user, with the default title and category,
\* persists its two messages in that session and returns the id of that
\* session; a turn that supplies a valid session id creates no session.
C30_LazySession ==
    \A p \in Procs :
       turn[p].pc = "done" =>
          LET t == turn[p]
              response == ChatResponse(t)
          IN /\ t.session_id_in = NoSessionId
                => /\ nextId.session = MAX_SESSIONS_PER_USER + 3
                   /\ Cardinality(CreatedSessions) = 1
                   /\ \A x \in CreatedSessions :
                         /\ x.user_uuid = t.user_uuid
                         /\ x.title = <<"k_sae", " ", "k_dae", "k_hwa">>
                         /\ x.category = "general"
                         /\ x.id = response.session_id
                         /\ {m.is_user : m \in {m \in messages : m.session_id = x.id}}
                               = {TRUE, FALSE}
                         /\ Cardinality({m \in messages : m.session_id = x.id}) = 2
                         /\ \E m \in messages : /\ m.id = response.message_id
                                                /\ m.session_id = x.id
                                                /\ ~m.is_user
             /\ (t.session_id_in # NoSessionId /\ t.session_id_in # 0)
                => /\ nextId.session = MAX_SESSIONS_PER_USER + 2
                   /\ CreatedSessions = {}
                   /\ response.session_id = t.session_id_in

C30_Witness ==
    \E p \in Procs :
       /\ turn[p].pc = "done"
       /\ turn[p].session_id_in = NoSessionId
       /\ turn[p].created
       /\ \E x \in CreatedSessions : x.id = ChatResponse(turn[p]).session_id

\* A turn for a session of the user ended without a new session
C30_WitnessSupplied ==
    \E p \in Procs :
       /\ turn[p].pc = "done"
       /\ turn[p].session_id_in = 1
       /\ ~turn[p].created
       /\ CreatedSessions = {}

-----------------------------------------------------------------------------
(* Claims about concurrent turns, the session management operations and the
   order of a turn *)

\* Both workers persisted a turn for the session, which still exists
BothPersistedIn(session_id) ==
    /\ \A p \in Procs : /\ turn[p].pc \in {"retain", "done"}
                        /\ turn[p].session_id_in = session_id
    /\ \E x \in sessions : x.id = session_id

\* C31: when two turns for the same session run side by side and both end
\* successfully, no message is lost or duplicated: the session has gained
\* the user message and the assistant message of each turn (four messages,
\* below the cap), and its updated_at is the one written by the turn that
\* persisted last.
C31_ConcurrentTurns ==
    BothPersistedIn(2) =>
       LET stored == {m \in messages : m.session_id = 2}
           gained == {m \in stored : m.id >= 7}
           last == CHOOSE m \in gained : \A o \in gained : o.id <= m.id
       IN /\ Cardinality(gained) = 4
          /\ Cardinality({m.id : m \in gained}) = 4
          /\ SeedMessages("capped") \subseteq messages
          /\ \A p \in Procs :
                /\ \E m \in gained : /\ m.id = turn[p].message_id
                                     /\ ~m.is_user
                                     /\ m.content = turn[p].ai_response_text
                /\ \E m \in gained : /\ m.id = turn[p].message_id - 1
                                     /\ m.is_user
                                     /\ m.content = turn[p].message
          /\ turn["p1"].message_id # turn["p2"].message_id
          /\ \A x \in sessions : x.id = 2 => x.updated_at = last.created_at

\* Both turns ended, having persisted at different times
C31_Witness ==
    /\ BothPersistedIn(2)
    /\ \A p \in Procs : turn[p].pc = "done"
    /\ \E m, o \in messages : /\ m.session_id = 2 /\ o.session_id = 2
                              /\ m.id >= 7 /\ o.id >= 7
                              /\ m.created_at # o.created_at

\* The two turns overlap: both have persisted and neither has ended
C31_WitnessOverlap ==
    /\ BothPersistedIn(2)
    /\ \A p \in Procs : turn[p].pc = "retain"

\* C32: nobody can observe an intermediate state of a turn in progress:
\* while a turn is between its start and its persist step, the session it
\* created and the schedules and alarms it changed are not in the tables
\* yet, and a user message of a turn is never in the table without the
\* assistant message of that turn.
\* (The new session is committed before the oracle is called, and every
\* dispatched function commits its own change before the messages exist.)
C32_NoPartialVisibility ==
    /\ \A p \in Procs :
          turn[p].pc \in {"query", "parts", "submit"} =>
             /\ turn[p].created
                   => ~\E x \in sessions : x.id = turn[p].session_id
             /\ calendars = SeedCalendars
             /\ alarms = SeedAlarms
    /\ \A m \in messages :
          (m.is_user /\ m.created_at >= T0)
             => \E o \in messages : /\ o.id = m.id + 1
                                    /\ o.session_id = m.session_id
                                    /\ ~o.is_user

\* C33: delete_session and update_session act only on a session of the
\* supplied user: for any other session id they answer 404 and leave every
\* session and message as it is, and for a session of the user they change
\* that session alone; get_user_sessions returns at most 15 sessions, all of
\* the given user, ordered by updated_at descending.
C33_SessionManagement ==
    \A user_uuid \in {"u1", "u2", "ux"} :
       /\ \A session_id \in 0..(MAX_SESSIONS_PER_USER + 3) :
             LET owned == \E x \in sessions : /\ x.id = session_id
                                              /\ x.user_uuid = user_uuid
                 deleted == delete_session(session_id, user_uuid)
                 renamed == update_session(session_id, user_uuid, <<"t">>)
             IN IF owned
                THEN /\ deleted.status = 200
                     /\ deleted.sessions = {x \in sessions : x.id # session_id}
                     /\ deleted.messages
                           = {m \in messages : m.session_id # session_id}
                     /\ renamed.status = 200
                     /\ {x \in renamed.sessions : x.id # session_id}
                           = {x \in sessions : x.id # session_id}
                     /\ \E x \in renamed.sessions : /\ x.id = session_id
                                                    /\ x.user_uuid = user_uuid
                                                    /\ x.title = <<"t">>
                     /\ renamed.messages = messages
                ELSE /\ deleted = Managed(404, sessions, messages)
                     /\ renamed = Managed(404, sessions, messages)
       /\ \A list \in get_user_sessions(user_uuid) :
             /\ Len(list) <= 15
             /\ Len(list) = IF Cardinality(SessionsOf(user_uuid)) < 15
                            THEN Cardinality(SessionsOf(user_uuid)) ELSE 15
             /\ \A i \in 1..Len(list) : /\ list[i] \in sessions
                                        /\ list[i].user_uuid = user_uuid
             /\ \A i, j \in 1..Len(list) :
                   i < j => /\ list[i].updated_at >= list[j].updated_at
                            /\ list[i].id # list[j].id
             /\ \A x \in SessionsOf(user_uuid) :
                   (\A i \in 1..Len(list) : list[i] # x)
                      => \A i \in 1..Len(list) : list[i].updated_at >= x.updated_at

\* While a turn of the user that opened a sixteenth session is waiting for
\* the oracle, one session of the user was renamed and another deleted,
\* beside the session of another user
C33_Witness ==
    /\ turn["p1"].pc = "query"
    /\ nextId.session = MAX_SESSIONS_PER_USER + 3
    /\ Cardinality(SessionsOf("u1")) = MAX_SESSIONS_PER_USER
    /\ \E x \in SessionsOf("u1") : x.title = <<"t">>
    /\ ~\E x \in sessions : x.id = 3
    /\ SessionsOf("u2") # {}

\* The user holds more sessions than get_user_sessions returns
C33_WitnessOverCap ==
    /\ Cardinality(SessionsOf("u1")) > MAX_SESSIONS_PER_USER
    /\ \E x \in SessionsOf("u1") : x.title = <<"t">>

\* C34: the final text of a turn is the oracle's reply to the submitted
\* function result whenever a function call was dispatched in the turn,
\* whatever else the first reply held and in whatever order, and the
\* response names the function; it is the oracle's own text only when no
\* function call was dispatched.
\* (The loop goes on after the call: a text part that follows the call in
\* the first reply replaces the reply to the function result.)
C34_FinalText ==
    \A p \in Procs :
       turn[p].pc = "done" =>
          LET response == ChatResponse(turn[p])
          IN /\ ( /\ turn[p].dispatched >= 1
                  /\ turn[p].last_status # "raised"
                  /\ ~turn[p].submit_failed )
                => /\ response.ai_response = PlainText
                   /\ response.function_called # "none"
             /\ turn[p].dispatched = 0
                => /\ response.ai_response \in OracleTexts
                   /\ response.function_called = "none"

\* The order of the steps of a request: the lookups and the history, the
\* oracle call, the loop over the parts of the reply with the calls it
\* dispatches, the inserts, the retention, the response
StepOrder ==
    { <<"idle", "query">>, <<"idle", "http404">>,
      <<"query", "parts">>, <<"query", "http500">>,
      <<"parts", "parts">>, <<"parts", "submit">>, <<"submit", "parts">>,
      <<"parts", "retain">>, <<"parts", "http500">>,
      <<"retain", "done">> }

\* C35: every turn goes through its states in order (session, context,
\* oracle, the reply with or without a call, persist, retain, done) and
\* ends: messages are persisted only after the final text was obtained,
\* retention runs only after the messages were persisted, and every turn
\* that was started reaches its end or an error, provided every call of the
\* oracle and of the database returns or raises.
C35_TurnOrder ==
    /\ [][\A p \in Procs : turn'[p] # turn[p] =>
             /\ <<turn[p].pc, turn'[p].pc>> \in StepOrder
             /\ messages' # messages =>
                   \/ /\ turn[p].pc = "parts" /\ turn'[p].pc = "retain"
                      /\ turn[p].parts = <<>>
                      /\ turn[p].ai_response_text # <<>>
                      /\ messages \subseteq messages'
                   \/ /\ turn[p].pc = "retain" /\ turn'[p].pc = "done"
                      /\ turn[p].message_id > 0
             /\ sessions' # sessions =>
                   turn[p].pc \in {"idle", "parts", "retain"}
       ]_vars
    /\ \A p \in Procs :
          (turn[p].pc # "idle") ~> (turn[p].pc \in {"done", "http404", "http500"})

\* A turn that dispatched a function ended after its retention step
C35_Witness ==
    \E p \in Procs :
       /\ turn[p].pc = "done"
       /\ turn[p].dispatched >= 1
       /\ turn[p].message_id > 0

\* C36: when the dispatch of a function raises, the fault stays inside the
\* turn: the final text is the failure notice, the turn persists the user
\* message and the notice as the assistant message, runs the retention step
\* and returns a success response that names the function.
\* (A text part that follows the call in the reply replaces the notice.)
C36_FaultContained ==
    \A p \in Procs :
       turn[p].last_status = "raised" =>
          /\ turn[p].pc \notin {"http404", "http500"}
          /\ turn[p].pc \in {"retain", "done"}
                => turn[p].ai_response_text = FailureNotice
          /\ turn[p].pc = "done" =>
                LET response == ChatResponse(turn[p])
                IN /\ response.success
                   /\ response.ai_response = FailureNotice
                   /\ response.function_called # "none"
                   /\ \E m \in messages : /\ m.id = response.message_id
                                          /\ m.session_id = response.session_id
                                          /\ ~m.is_user
                                          /\ m.content = FailureNotice
                   /\ \E m \in messages : /\ m.id = response.message_id - 1
                                          /\ m.session_id = response.session_id
                                          /\ m.is_user
                                          /\ m.content = turn[p].message

\* C37: the retention step of a successful turn deletes neither the session
\* the turn wrote to nor the assistant message it has just persisted: the
\* session id of the response names a session of the user and the message
\* id of the response names an assistant message of that session.
C37_RetentionKeepsTurn ==
    [][\A p \in Procs :
          ( /\ RetainStep(p)
            /\ \E x \in sessions : x.id = turn[p].session_id )
          => LET response == ChatResponse(turn'[p])
             IN /\ response.success
                /\ \E x \in sessions' : /\ x.id = response.session_id
                                        /\ x.user_uuid = turn[p].user_uuid
                /\ \E m \in messages' : /\ m.id = response.message_id
                                        /\ m.session_id = response.session_id
                                        /\ ~m.is_user
                                        /\ m.content = response.ai_response
                /\ \E m \in messages' : /\ m.id = response.message_id - 1
                                        /\ m.session_id = response.session_id
                                        /\ m.is_user
      ]_vars

\* A turn ended whose retention step deleted messages of its session
C37_Witness ==
    \E p \in Procs :
       /\ turn[p].pc = "done"
       /\ \E x \in sessions : x.id = turn[p].session_id
       /\ \E m \in messages : m.id = turn[p].message_id
       /\ Cardinality(MessagesOf(turn[p].session_id)) = MAX_MESSAGES_PER_SESSION
       /\ nextId.message > MAX_MESSAGES_PER_SESSION + 3

\* A turn ended whose retention step evicted sessions of its user
C37_WitnessSessions ==
    \E p \in Procs :
       /\ turn[p].pc = "done"
       /\ turn[p].evicted # {}
       /\ \E x \in sessions : x.id = turn[p].session_id

\* C38: the updated_at of a session changes only when a turn persists new
\* messages in it: a rename changes the title alone and leaves updated_at,
\* hence the rank of the session among those of the user, and the messages
\* as they are.
\* (The column has onupdate=func.now(): the UPDATE that writes the new
\* title sets updated_at to the time of the rename.)
C38_RenameKeepsUpdatedAt ==
    [][\A x \in sessions : \A y \in sessions' :
          (x.id = y.id /\ x.updated_at # y.updated_at)
             => \E p \in Procs : /\ PersistStep(p)
                                 /\ turn[p].session_id = x.id
                                 /\ messages' # messages
      ]_vars

====
